---- MODULE Spec2Model ----
(***************************************************************************)
(* Model of the session process manager of OpenClaudgents                  *)
(* (src-tauri/src/claude/process.rs) as driven by the Tauri commands of    *)
(* src-tauri/src/commands/session.rs.                                      *)
(*                                                                         *)
(* Granularity: one action per maximal piece of code that runs without     *)
(* releasing a registry lock.  A block that awaits I/O while it holds the  *)
(* `processes` lock (child.kill().await, write_all/shutdown on stdin) is   *)
(* split in two steps with the lock recorded in procsLock in between.      *)
(***************************************************************************)
EXTENDS Naturals, FiniteSets, Sequences, TLC

VARIABLES
    processes,           \* ProcessManager.processes : HashMap<String, ClaudeProcess>
    claude_session_map,  \* ProcessManager.claude_session_map : HashMap<String, String>
    procsLock,           \* task that holds the `processes` mutex across an await
    children,            \* the OS child processes launched so far
    outPc,               \* per child: position of its stdout reader task
    errPc,               \* per child: position of its stderr reader task
    had_stderr,          \* per child: the stderr reader's local `had_stderr`
    errWhileActive,      \* per child (history): a stderr line was read while the
                         \* handle's record was Starting or Running
    call,                \* per foreground task: the command it runs and its locals
    fresh,               \* session handles no command has used yet
    ncalls,              \* number of commands invoked so far
    resolvedEvents,      \* per handle: number of session-id-resolved events emitted
    statusEvents,        \* per child: session-status events emitted by its spawn
                         \* and its reader tasks, counted by status
    watched,             \* the child whose stdout is followed line by line (0: none)
    emitted,             \* the lines the watched child writes to its stdout, in order
    nread,               \* how many of them its stdout reader has taken
    published            \* the events published for them, in order

readerVars == << outPc, errPc, had_stderr, errWhileActive >>

streamVars == << watched, emitted, nread, published >>

eventVars == << resolvedEvents, statusEvents, streamVars >>

vars == << processes, claude_session_map, procsLock, children, readerVars,
           call, fresh, ncalls, eventVars >>

----------------------------------------------------------------------------
(* Bounds *)

MaxCalls == 2         \* commands invoked in one behaviour
MaxResolved == 2      \* cap of the per-handle count of session-id-resolved events

Handles == {"h1"}             \* session handles (our session ids)
ExtIds == {"e1", "e2"}        \* conversation ids assigned by the CLI
Paths == {"p1", "p2"}         \* working directories
CreatePaths == {"p1"}         \* the directory a session is created in
ResumeIds == {"e1"}           \* the conversation id a session is resumed with
Callers == {"c1", "c2"}       \* concurrently running command invocations
Pids == 1..(MaxCalls + 1)     \* children launched in one behaviour: a command
                              \* launches at most one, and one child may be
                              \* there from the start
NoLock == "free"
NoId == "-"

Statuses == {"Starting", "Running", "WaitingInput", "Paused", "Completed", "Error"}

\* A counter of a `usage` object: absent, an unsigned integer, or any other
\* JSON value (for which as_u64 yields None)
NoCounter == [kind |-> "missing", v |-> 0]

\* A field read with `.and_then(|v| v.as_str())`: absent, a string, or any
\* other JSON value
NoStr == [kind |-> "missing", v |-> ""]

Str(v) == [kind |-> "str", v |-> v]

NotStr == [kind |-> "other", v |-> ""]

\* The top-level "event" of a line, absent.  Its fields when present: type
\* (its string "type", "" if absent), block_type, name and id (the "type",
\* "name" and "id" of its "content_block"), has_delta, delta_type, text and
\* partial_json (its "delta" and the "type", "text" and "partial_json" of
\* it), has_usage and usage (its "usage").
NoInner == [present |-> FALSE, type |-> "", block_type |-> "", name |-> NoStr,
            id |-> NoStr, has_delta |-> FALSE, delta_type |-> "", text |-> NoStr,
            partial_json |-> NoStr, has_usage |-> FALSE,
            usage |-> << NoCounter, NoCounter, NoCounter, NoCounter >>]

\* A line of text that is no JSON.  The fields of a line: utf8 (next_line
\* can decode it), blank (nothing is left of it after trim), valid (it
\* parses as JSON), sid (its top-level string "session_id"), type and
\* subtype (its top-level strings "type" and "subtype", "" if absent),
\* has_usage and usage (its top-level "usage"), inner (its top-level
\* "event").
PlainLine == [utf8 |-> TRUE, blank |-> FALSE, valid |-> FALSE, sid |-> NoId,
              type |-> "", subtype |-> "", has_usage |-> FALSE,
              usage |-> << NoCounter, NoCounter, NoCounter, NoCounter >>,
              inner |-> NoInner]

\* A stdout line: not valid JSON, or a JSON value with or without a string
\* "session_id" field.
StdoutLines == {PlainLine}
                 \cup {[PlainLine EXCEPT !.valid = TRUE, !.sid = s] : s \in ExtIds \cup {NoId}}

----------------------------------------------------------------------------
(* HashMap helpers *)

MapInsert(m, k, v) == [x \in DOMAIN m \cup {k} |-> IF x = k THEN v ELSE m[x]]

MapRemove(m, k) == [x \in DOMAIN m \ {k} |-> m[x]]

EmptyMap == [x \in {} |-> NoId]

----------------------------------------------------------------------------
(* Initial state: ProcessManager::new, no command running, no child. *)

\* No stdout stream is followed line by line.
NotWatching ==
    /\ watched = 0
    /\ emitted = << >>
    /\ nread = 0
    /\ published = << >>

NoEvents == [active |-> 0, completed |-> 0, error |-> 0]

NoChild == [state |-> "unborn", h |-> NoId, msgs |-> 0, closed |-> FALSE]

IdleCall == [op |-> "idle", pc |-> "idle", h |-> NoId, path |-> NoId,
             resume |-> NoId, csid |-> NoId, child |-> 0, ret |-> "none",
             seen |-> NoId, respawn |-> FALSE, removed |-> 0, kills |-> 0,
             launches |-> 0, stdin |-> TRUE,
             cli |-> NoId, home |-> TRUE, existing |-> {}, which |-> NoId,
             todo |-> << >>, held |-> {}]

Init ==
    /\ processes = EmptyMap
    /\ claude_session_map = EmptyMap
    /\ procsLock = NoLock
    /\ children = [p \in Pids |-> NoChild]
    /\ outPc = [p \in Pids |-> "none"]
    /\ errPc = [p \in Pids |-> "none"]
    /\ call = [c \in Callers |-> IdleCall]
    /\ fresh = Handles
    /\ ncalls = 0
    /\ resolvedEvents = [h \in Handles |-> 0]
    /\ had_stderr = [p \in Pids |-> FALSE]
    /\ errWhileActive = [p \in Pids |-> FALSE]
    /\ statusEvents = [p \in Pids |-> NoEvents]
    /\ NotWatching

----------------------------------------------------------------------------
(* Pure parts of the code, one operator per decision *)

\* Variants of the decisions below with a plausible slip each; the checks of
\* the properties use them to show that the properties depend on the code.
NeedsRespawnOnError(procs, h) ==
    IF h \in DOMAIN procs
    THEN (~procs[h].stdin) \/ procs[h].status \in {"Completed", "Error"}
    ELSE TRUE

NeedsRespawnStdinOnly(procs, h) ==
    IF h \in DOMAIN procs THEN ~procs[h].stdin ELSE TRUE

ResolveResumeHandle(map, h) == h

RecordIdAlways(map, h) == TRUE

RecordIdOverHandle(map, h) == h \notin DOMAIN map \/ map[h] = h

NeedsRespawnOfRecord(procs, h) ==
    IF h \in DOMAIN procs
    THEN (~procs[h].stdin) \/ procs[h].status = "Completed"
    ELSE FALSE

\* send_message: `needs_respawn`
NeedsRespawn(procs, h) ==
    IF h \in DOMAIN procs
    THEN (~procs[h].stdin) \/ procs[h].status = "Completed"
    ELSE TRUE

ResolvePathOfCaller(procs, h, project_path) == project_path

\* send_message: working directory of the respawned process
ResolvePath(procs, h, project_path) ==
    IF h \in DOMAIN procs THEN procs[h].project_path ELSE project_path

ResolveResumeMapOnly(map, h) ==
    IF h \in DOMAIN map THEN map[h] ELSE NoId

\* send_message: `claude_sid`, the id handed to --resume
ResolveResume(map, h) ==
    IF h \in DOMAIN map THEN map[h] ELSE h

\* stdout reader: the guard `!map.contains_key(&sid)`
ShouldRecordId(map, h) == h \notin DOMAIN map

IsActiveUnlessCompleted(procs, h) ==
    IF h \in DOMAIN procs THEN procs[h].status # "Completed" ELSE FALSE

\* is_active
IsActive(procs, h) ==
    IF h \in DOMAIN procs
    THEN procs[h].status \in {"Running", "Starting", "WaitingInput"}
    ELSE FALSE

\* get_status / get_claude_session_id, NoId standing for Option::None
GetStatus(procs, h) == IF h \in DOMAIN procs THEN procs[h].status ELSE NoId

GetClaudeSessionId(map, h) == IF h \in DOMAIN map THEN map[h] ELSE NoId

\* The ClaudeProcess that spawn registers
NewProcess(pid, project_path) ==
    [child |-> pid, stdin |-> TRUE, project_path |-> project_path,
     status |-> "Starting"]

\* The pid the OS gives the next child
FreePids == {p \in Pids : children[p].state = "unborn"}

NextPid == CHOOSE p \in FreePids : \A q \in FreePids : p <= q

CanBegin(c) == call[c].pc \in {"idle", "done"} /\ ncalls < MaxCalls

\* The call returns ret; its locals are dropped.
Return(rec, ret) ==
    [IdleCall EXCEPT !.op = rec.op, !.pc = "done", !.h = rec.h,
                     !.respawn = rec.respawn, !.ret = ret]

----------------------------------------------------------------------------
(* commands::session::create_session and ProcessManager::spawn *)

\* create_session: a handle generated for this call, no resume id.
CreateSession(c, h, path) ==
    /\ CanBegin(c)
    /\ h \in fresh
    /\ fresh' = fresh \ {h}
    /\ ncalls' = ncalls + 1
    /\ call' = [call EXCEPT ![c] =
                  [IdleCall EXCEPT !.op = "create", !.pc = "sp_launch",
                                   !.h = h, !.path = path]]
    /\ UNCHANGED << processes, claude_session_map, procsLock, children,
                    readerVars, eventVars >>

\* Outcomes of spawn in which the child is launched and `child.stdout.take()`
\* or `child.stderr.take()` yields None.  With the three pipes requested as
\* Stdio::piped() the handles are there: Spec leaves these outcomes out and
\* SpecCapture adds them.
CaptureFailures == {"no_stdout", "no_stderr"}

\* `child.stdin.take()` gave None: spawn does not look at it and goes on
\* with a record without a write end.  SpecStdin adds this outcome.
StdinMissing == "no_stdin"

\* Does spawn get as far as launching the child?
Launched(outcome) == outcome \in {"ok", StdinMissing} \cup CaptureFailures

\* Does spawn get as far as registering the record?
Registers(outcome) == outcome \in {"ok", StdinMissing}

SeedsOrForgets(map, h, resume, outcome) ==
    IF Registers(outcome) /\ resume # NoId THEN MapInsert(map, h, resume)
    ELSE MapRemove(map, h)

SeedsAlways(map, h, resume, outcome) ==
    IF resume # NoId THEN MapInsert(map, h, resume) ELSE map

SeedsWhenLaunched(map, h, resume, outcome) ==
    IF Launched(outcome) /\ resume # NoId THEN MapInsert(map, h, resume) ELSE map

\* spawn, "Store the resume session ID mapping if provided": the map after
\* the step, reached only when both stream handles were captured
SeededMap(map, h, resume, outcome) ==
    IF Registers(outcome) /\ resume # NoId THEN MapInsert(map, h, resume) ELSE map

\* spawn, up to and including the seeding of the session id map: resolve the
\* binary, launch the child with its three pipes, take the stream handles,
\* record the --resume id.  A missing stdout or stderr handle and a failure
\* before it return the error; a missing stdin handle does not.
SpawnLaunch(c, outcome) ==
    /\ call[c].pc = "sp_launch"
    /\ Launched(outcome) => FreePids # {}
    /\ children' =
          IF Launched(outcome)
          THEN [children EXCEPT ![NextPid] =
                  [state |-> "live", h |-> call[c].h, msgs |-> 0, closed |-> FALSE]]
          ELSE children
    /\ claude_session_map' =
          SeededMap(claude_session_map, call[c].h, call[c].resume, outcome)
    /\ call' = [call EXCEPT ![c] =
                  IF Registers(outcome)
                  THEN [@ EXCEPT !.pc = "sp_insert", !.child = NextPid,
                                 !.launches = @ + 1,
                                 !.stdin = (outcome # StdinMissing)]
                  ELSE Return(@, outcome)]
    /\ UNCHANGED << processes, procsLock, readerVars, fresh, ncalls, eventVars >>

RegisteredWithStdin(pid, project_path, stdin) == NewProcess(pid, project_path)

\* The ClaudeProcess literal, `stdin` being what child.stdin.take() gave
Registered(pid, project_path, stdin) ==
    [NewProcess(pid, project_path) EXCEPT !.stdin = stdin]

\* spawn: register the record, then start the two reader tasks.
SpawnInsert(c) ==
    /\ call[c].pc = "sp_insert"
    /\ procsLock = NoLock
    /\ processes' = MapInsert(processes, call[c].h,
                              Registered(call[c].child, call[c].path, call[c].stdin))
    /\ outPc' = [outPc EXCEPT ![call[c].child] = "reading"]
    /\ errPc' = [errPc EXCEPT ![call[c].child] = "reading"]
    /\ call' = [call EXCEPT ![c].pc = "sp_promote"]
    /\ UNCHANGED << claude_session_map, procsLock, children, had_stderr,
                    errWhileActive, fresh, ncalls, eventVars >>

\* spawn, "Update status": whatever record the handle has becomes Running.
PromoteStatus(procs, h) ==
    IF h \in DOMAIN procs
    THEN [procs EXCEPT ![h].status = "Running"]
    ELSE procs

\* spawn: promote, emit session-status "active", return Ok(()).  Inside
\* send_message the caller goes on to write the message.
SpawnPromote(c) ==
    /\ call[c].pc = "sp_promote"
    /\ procsLock = NoLock
    /\ processes' = PromoteStatus(processes, call[c].h)
    /\ statusEvents' = [statusEvents EXCEPT ![call[c].child].active = @ + 1]
    /\ call' = [call EXCEPT ![c] =
                  IF @.op = "send" THEN [@ EXCEPT !.pc = "sm_write"]
                  ELSE Return(@, "ok")]
    /\ UNCHANGED << claude_session_map, procsLock, children, readerVars,
                    fresh, ncalls, resolvedEvents, streamVars >>

----------------------------------------------------------------------------
(* commands::session::send_message and ProcessManager::send_message *)

\* create_session generates the handle and hands it out when it returns: no
\* other command can name the handle before.
InCreation(h) ==
    \E c \in Callers : call[c].op = "create" /\ call[c].pc # "done" /\ call[c].h = h

\* The command arrives and send_message computes `needs_respawn`.  The
\* frontend may pass any session id, also one no session was created for (a
\* discovered session); project_path is the fallback working directory.
SendInspect(c, h, project_path) ==
    /\ CanBegin(c)
    /\ ~InCreation(h)
    /\ procsLock = NoLock
    /\ fresh' = fresh \ {h}
    /\ ncalls' = ncalls + 1
    /\ LET r == NeedsRespawn(processes, h)
       IN call' = [call EXCEPT ![c] =
                     [IdleCall EXCEPT !.op = "send", !.h = h,
                                      !.path = project_path,
                                      !.seen = GetStatus(processes, h),
                                      !.respawn = r,
                                      !.pc = IF r THEN "sm_resolve" ELSE "sm_direct"]]
    /\ UNCHANGED << processes, claude_session_map, procsLock, children,
                    readerVars, eventVars >>

\* `let (resolved_path, claude_session_id) = { ... }`, both locks held, and
\* `claude_session_id.ok_or("No Claude session ID found ...")?`, NoId standing
\* for None.  The fallback to the handle makes the id always Some.
SendResolve(c) ==
    /\ call[c].pc = "sm_resolve"
    /\ procsLock = NoLock
    /\ LET claude_sid == ResolveResume(claude_session_map, call[c].h)
       IN call' = IF claude_sid = NoId
                  THEN [call EXCEPT ![c] = Return(@, "cannot_resume")]
                  ELSE [call EXCEPT
                          ![c].path = ResolvePath(processes, call[c].h, call[c].path),
                          ![c].csid = claude_sid,
                          ![c].pc = "sm_remove"]
    /\ UNCHANGED << processes, claude_session_map, procsLock, children,
                    readerVars, fresh, ncalls, eventVars >>

\* Child::kill on a child: SIGKILL ends a running child; a child that is
\* already gone is left as it is, and only then can the call report failure.
KillChild(kids, p) ==
    IF kids[p].state = "live" THEN [kids EXCEPT ![p].state = "dead"] ELSE kids

RemoveAll(procs, h) == EmptyMap

\* "Remove old process": the record is taken out of the registry
RemoveOld(procs, h) == MapRemove(procs, h)

\* "Remove old process": remove the record and request the kill under the
\* lock; the result of kill is dropped.  The spawn options are built from
\* the values resolved before.
SendRemove(c) ==
    /\ call[c].pc = "sm_remove"
    /\ procsLock = NoLock
    /\ LET h == call[c].h
       IN IF h \in DOMAIN processes
          THEN LET old == processes[h].child
               IN /\ processes' = RemoveOld(processes, h)
                  /\ children' = KillChild(children, old)
                  /\ procsLock' = IF children[old].state = "live" THEN c ELSE NoLock
                  /\ call' = [call EXCEPT
                        ![c].removed = old,
                        ![c].kills = @ + 1,
                        ![c].resume = call[c].csid,
                        ![c].pc = IF children[old].state = "live"
                                  THEN "sm_killwait" ELSE "sp_launch"]
          ELSE /\ call' = [call EXCEPT ![c].resume = call[c].csid,
                                       ![c].pc = "sp_launch"]
               /\ UNCHANGED << processes, children, procsLock >>
    /\ UNCHANGED << claude_session_map, readerVars, fresh, ncalls, eventVars >>

\* kill().await returns: the old child is reaped, the lock is released.
SendKillWait(c) ==
    /\ call[c].pc = "sm_killwait"
    /\ procsLock = c
    /\ procsLock' = NoLock
    /\ call' = [call EXCEPT ![c].pc = "sp_launch"]
    /\ UNCHANGED << processes, claude_session_map, children, readerVars,
                    fresh, ncalls, eventVars >>

\* Respawn path, "Now write the message to the new process's stdin": look the
\* handle up again; without a record or without a write end nothing is
\* written and the call returns Ok(()).
SendWrite(c) ==
    /\ call[c].pc = "sm_write"
    /\ procsLock = NoLock
    /\ LET h == call[c].h
       IN IF h \in DOMAIN processes /\ processes[h].stdin
          THEN /\ procsLock' = c
               /\ call' = [call EXCEPT ![c].pc = "sm_writing"]
          ELSE /\ call' = [call EXCEPT ![c] = Return(@, "ok")]
               /\ UNCHANGED procsLock
    /\ UNCHANGED << processes, claude_session_map, children, readerVars,
                    fresh, ncalls, eventVars >>

\* Direct path, "First message": a missing record is an error, a missing
\* write end is not.
SendDirect(c) ==
    /\ call[c].pc = "sm_direct"
    /\ procsLock = NoLock
    /\ LET h == call[c].h
       IN IF h \notin DOMAIN processes
          THEN /\ call' = [call EXCEPT ![c] = Return(@, "not_found")]
               /\ UNCHANGED procsLock
          ELSE IF processes[h].stdin
               THEN /\ procsLock' = c
                    /\ call' = [call EXCEPT ![c].pc = "sm_writing"]
               ELSE /\ call' = [call EXCEPT ![c] = Return(@, "ok")]
                    /\ UNCHANGED procsLock
    /\ UNCHANGED << processes, claude_session_map, children, readerVars,
                    fresh, ncalls, eventVars >>

ClearKeepsStdin(procs, h) == procs

\* `proc.stdin = None`
ClearStdin(procs, h) == [procs EXCEPT ![h].stdin = FALSE]

AfterWriteClears(procs, h, io) == ClearStdin(procs, h)

\* The registry after write_all and shutdown: the `?` of either call returns
\* before `proc.stdin = None`
AfterWrite(procs, h, io) == IF io = "ok" THEN ClearStdin(procs, h) ELSE procs

\* write_all, shutdown and `proc.stdin = None`, the lock held throughout.
\* A pipe whose reader is gone fails the write; a failure of either call
\* returns early and leaves the write end in the record.
SendWriteDone(c, io) ==
    /\ call[c].pc = "sm_writing"
    /\ procsLock = c
    /\ LET h == call[c].h
           p == processes[h].child
       IN /\ (children[p].state # "live") => io = "write_err"
          /\ children' =
               IF io = "write_err" THEN children
               ELSE [children EXCEPT ![p].msgs = @ + 1,
                                     ![p].closed = (io = "ok")]
          /\ processes' = AfterWrite(processes, h, io)
          /\ call' = [call EXCEPT ![c] = Return(@, io)]
    /\ procsLock' = NoLock
    /\ UNCHANGED << claude_session_map, readerVars, fresh, ncalls, eventVars >>

----------------------------------------------------------------------------
(* commands::session::kill_session and ProcessManager::kill *)

KillKeepsRecord(procs, h) == procs

\* kill: the registry after `procs.remove(session_id)`
KillRemoved(procs, h) == MapRemove(procs, h)

\* The command arrives; lock, remove, kill.  killOk is the result of
\* Child::kill on a child that is already gone; for a running child the call
\* goes on to await its end.
KillRemove(c, h, killOk) ==
    /\ CanBegin(c)
    /\ ~InCreation(h)
    /\ procsLock = NoLock
    /\ fresh' = fresh \ {h}
    /\ ncalls' = ncalls + 1
    /\ LET begun == [IdleCall EXCEPT !.op = "kill", !.h = h]
       IN IF h \in DOMAIN processes
          THEN LET old == processes[h].child
               IN /\ processes' = KillRemoved(processes, h)
                  /\ children' = KillChild(children, old)
                  /\ IF children[old].state = "live"
                     THEN /\ killOk
                          /\ procsLock' = c
                          /\ call' = [call EXCEPT ![c] =
                                [begun EXCEPT !.removed = old, !.kills = 1,
                                              !.pc = "k_wait"]]
                     ELSE /\ procsLock' = NoLock
                          /\ call' = [call EXCEPT ![c] =
                                Return(begun, IF killOk THEN "ok" ELSE "kill_err")]
          ELSE /\ killOk
               /\ call' = [call EXCEPT ![c] = Return(begun, "ok")]
               /\ UNCHANGED << processes, children, procsLock >>
    /\ UNCHANGED << claude_session_map, readerVars, eventVars >>

KillWait(c) ==
    /\ call[c].pc = "k_wait"
    /\ procsLock = c
    /\ procsLock' = NoLock
    /\ call' = [call EXCEPT ![c] = Return(@, "ok")]
    /\ UNCHANGED << processes, claude_session_map, children, readerVars,
                    fresh, ncalls, eventVars >>

----------------------------------------------------------------------------
(* commands::session::resume_session and register_claude_session_id *)

ResumeSession(c, h, claude_session_id) ==
    /\ CanBegin(c)
    /\ h \in fresh
    /\ fresh' = fresh \ {h}
    /\ ncalls' = ncalls + 1
    /\ claude_session_map' = MapInsert(claude_session_map, h, claude_session_id)
    /\ call' = [call EXCEPT ![c] =
                  Return([IdleCall EXCEPT !.op = "resume", !.h = h], "ok")]
    /\ UNCHANGED << processes, procsLock, children, readerVars, eventVars >>

----------------------------------------------------------------------------
(* The two reader tasks that spawn starts for every child *)

\* The child the handle's record holds
Held(h) == IF h \in DOMAIN processes THEN {processes[h].child} ELSE {}

\* A stream ends for its reader when the child is gone ("eof") or when
\* next_line returns an error ("read_err"); both leave the `while let` loop.
StreamEnds(p, cause) == cause = "read_err" \/ children[p].state # "live"

----------------------------------------------------------------------------
(* claude::stream_parser *)

\* An event on its way to the frontend: its name, the number of the stdout
\* line it was derived from, and the payload fields the properties read.
\* An event published for line n: its name and the payload fields the
\* model follows (id: resolved id or toolId; text: toolName, text or
\* partialJson; usage: the four counters)
Event(name, n) ==
    [name |-> name, line |-> n, id |-> NoId, text |-> "", usage |-> << 0, 0, 0, 0 >>]

AsU64Lenient(c) == IF c.kind = "missing" THEN 0 ELSE c.v

\* `.and_then(|v| v.as_u64()).unwrap_or(0)`
AsU64(c) == IF c.kind = "u64" THEN c.v ELSE 0

\* The four counters of a usage-update event
UsageCounters(usage) == << AsU64(usage[1]), AsU64(usage[2]), AsU64(usage[3]), AsU64(usage[4]) >>

UsageUpdate(line, n) == [Event("claude:usage_update", n) EXCEPT !.usage = UsageCounters(line.usage)]

ResultWithoutComplete(line, n) == IF line.has_usage THEN << UsageUpdate(line, n) >> ELSE << >>

\* handle_result_event
HandleResultEvent(line, n) ==
    (IF line.has_usage THEN << UsageUpdate(line, n) >> ELSE << >>)
        \o << Event("claude:message_complete", n) >>

SystemUnlessInit(line, n) ==
    IF line.subtype # "init" THEN << Event("claude:compaction", n) >> ELSE << >>

\* handle_system_event
HandleSystemEvent(line, n) ==
    IF line.subtype = "compaction" THEN << Event("claude:compaction", n) >> ELSE << >>

\* `.and_then(|v| v.as_str()).unwrap_or(default)`
AsStr(x, default) == IF x.kind = "str" THEN x.v ELSE default

ToolStart(inner, n) ==
    [Event("claude:tool_start", n) EXCEPT !.text = AsStr(inner.name, "unknown"),
                                          !.id = AsStr(inner.id, "")]

HandleDeltaAnyText(inner, n) ==
    IF inner.has_delta /\ inner.delta_type = "text_delta"
    THEN << [Event("claude:text_delta", n) EXCEPT !.text = inner.text.v] >>
    ELSE << >>

\* handle_stream_event, arm "content_block_delta"
HandleDelta(inner, n) ==
    IF ~inner.has_delta
    THEN << >>
    ELSE CASE inner.delta_type = "text_delta" ->
                IF inner.text.kind = "str"
                THEN << [Event("claude:text_delta", n) EXCEPT !.text = inner.text.v] >>
                ELSE << >>
           [] inner.delta_type = "input_json_delta" ->
                IF inner.partial_json.kind = "str"
                THEN << [Event("claude:tool_input_delta", n)
                            EXCEPT !.text = inner.partial_json.v] >>
                ELSE << >>
           [] OTHER -> << >>

StreamEventAlwaysComplete(inner, n) == << Event("claude:message_complete", n) >>

\* handle_stream_event
HandleStreamEvent(inner, n) ==
    CASE inner.type = "content_block_start" ->
            IF inner.block_type = "tool_use" THEN << ToolStart(inner, n) >> ELSE << >>
      [] inner.type = "content_block_delta" -> HandleDelta(inner, n)
      [] inner.type = "message_delta" ->
            IF inner.has_usage THEN << UsageUpdate(inner, n) >> ELSE << >>
      [] inner.type = "message_stop" -> << Event("claude:message_complete", n) >>
      [] OTHER -> << >>

\* handle_assistant_event: it only logs
HandleAssistantEvent(line, n) == << >>

ParseLineTypedOnly(line, n) ==
    IF line.valid /\ line.type # "" THEN << Event("claude:stream_event", n) >> ELSE << >>

ParseLineRawOnly(line, n) ==
    IF line.valid THEN << Event("claude:stream_event", n) >> ELSE << >>

\* parse_line: the events published for line number n of a stream
ParseLine(line, n) ==
    IF line.blank \/ ~line.valid
    THEN << >>
    ELSE << Event("claude:stream_event", n) >>
            \o (CASE line.type = "stream_event" ->
                        IF line.inner.present
                        THEN HandleStreamEvent(line.inner, n) ELSE << >>
                  [] line.type = "system" -> HandleSystemEvent(line, n)
                  [] line.type = "assistant" -> HandleAssistantEvent(line, n)
                  [] line.type = "result" -> HandleResultEvent(line, n)
                  [] OTHER -> << >>)

----------------------------------------------------------------------------
(* The reader tasks *)

PublishFirst(log, events) == events \o log

\* app.emit, once per event, in the order of the calls
Publish(log, events) == log \o events

\* The lines the watched child has written and its reader has not taken
Unread(p) == IF p = watched THEN SubSeq(emitted, nread + 1, Len(emitted)) ELSE << >>

\* stdout reader, one turn of the loop: capture the session id of the line
\* if the handle has none yet (and tell the frontend), then parse the line.
\* The watched child's lines come in the order it wrote them.
StdoutLine(p, line) ==
    /\ outPc[p] = "reading"
    /\ line.utf8
    /\ p = watched => (Unread(p) # << >> /\ line = Head(Unread(p)))
    /\ LET h == children[p].h
           n == nread + 1
           records == line.valid /\ line.sid # NoId /\ ShouldRecordId(claude_session_map, h)
           resolved == [Event("claude:session_id_resolved", n) EXCEPT !.id = line.sid]
       IN /\ IF records
             THEN /\ resolvedEvents[h] < MaxResolved
                  /\ claude_session_map' = MapInsert(claude_session_map, h, line.sid)
                  /\ resolvedEvents' = [resolvedEvents EXCEPT ![h] = @ + 1]
             ELSE UNCHANGED << claude_session_map, resolvedEvents >>
          /\ IF p = watched
             THEN /\ nread' = n
                  /\ published' = Publish(published,
                                          (IF records THEN << resolved >> ELSE << >>)
                                              \o ParseLine(line, n))
             ELSE UNCHANGED << nread, published >>
    /\ UNCHANGED << processes, procsLock, children, readerVars, call, fresh,
                    ncalls, statusEvents, watched, emitted >>

MarkCompletedOwnChild(procs, h, p) ==
    IF h \in DOMAIN procs /\ procs[h].child = p
    THEN [procs EXCEPT ![h].status = "Completed"]
    ELSE procs

\* stdout reader, "Process exited": the record found under the handle
\* becomes Completed
MarkCompleted(procs, h, p) ==
    IF h \in DOMAIN procs
    THEN [procs EXCEPT ![h].status = "Completed"]
    ELSE procs

\* stdout reader after the loop: mark and emit session-status "completed",
\* the lock held until the task ends.  On the watched stream next_line
\* returns Ok(None) when the child is gone and every line was taken, and Err
\* for a line that is not valid UTF-8.
StdoutEnd(p, cause) ==
    /\ outPc[p] = "reading"
    /\ StreamEnds(p, cause)
    /\ p = watched =>
          IF cause = "eof" THEN Unread(p) = << >>
          ELSE Unread(p) # << >> /\ ~Head(Unread(p)).utf8
    /\ nread' = IF p = watched /\ cause # "eof" THEN nread + 1 ELSE nread
    /\ procsLock = NoLock
    /\ processes' = MarkCompleted(processes, children[p].h, p)
    /\ outPc' = [outPc EXCEPT ![p] = "done"]
    /\ statusEvents' = [statusEvents EXCEPT ![p].completed = @ + 1]
    /\ UNCHANGED << claude_session_map, procsLock, children, errPc, had_stderr,
                    errWhileActive, call, fresh, ncalls, resolvedEvents,
                    watched, emitted, published >>

MarksErrorAnyStatus(procs, h, p) == h \in DOMAIN procs

\* stderr reader: does the record found under the handle become Error?
MarksError(procs, h, p) ==
    /\ h \in DOMAIN procs
    /\ procs[h].status \in {"Starting", "Running"}

\* stderr reader, one turn of the loop: the line is logged and forwarded to
\* the frontend, and had_stderr is set.
StderrLine(p) ==
    /\ errPc[p] = "reading"
    /\ had_stderr' = [had_stderr EXCEPT ![p] = TRUE]
    /\ errWhileActive' = [errWhileActive EXCEPT ![p] =
                             @ \/ (/\ Held(children[p].h) = {p}
                                   /\ MarksError(processes, children[p].h, p))]
    /\ UNCHANGED << processes, claude_session_map, procsLock, children, outPc,
                    errPc, call, fresh, ncalls, eventVars >>

\* stderr reader, from where it stands to its end: `more` tells whether the
\* child writes another line before the stream ends, so had_stderr is TRUE
\* after the loop iff a line was read before or is read now.  Then, if the
\* child wrote anything, the record found under the handle becomes Error
\* and session-status "error" is emitted, provided the record is still
\* Starting or Running.
StderrEnd(p, cause, more) ==
    /\ errPc[p] = "reading"
    /\ StreamEnds(p, cause)
    /\ errPc' = [errPc EXCEPT ![p] = "done"]
    /\ IF had_stderr[p] \/ more
       THEN /\ procsLock = NoLock
            /\ LET h == children[p].h
               IN IF MarksError(processes, h, p)
                  THEN /\ processes' = [processes EXCEPT ![h].status = "Error"]
                       /\ statusEvents' = [statusEvents EXCEPT ![p].error = @ + 1]
                  ELSE UNCHANGED << processes, statusEvents >>
       ELSE UNCHANGED << processes, statusEvents >>
    /\ UNCHANGED << claude_session_map, procsLock, children, outPc, had_stderr,
                    errWhileActive, call, fresh, ncalls, resolvedEvents, streamVars >>

\* The CLI process ends by itself (turn finished, or it failed).
ChildExit(p) ==
    /\ children[p].state = "live"
    /\ children' = [children EXCEPT ![p].state = "dead"]
    /\ UNCHANGED << processes, claude_session_map, procsLock, readerVars,
                    call, fresh, ncalls, eventVars >>

----------------------------------------------------------------------------

SpawnOutcomes == {"ok", "binary_not_found", "spawn_err"}
WriteOutcomes == {"ok", "write_err", "shutdown_err"}
EndCauses == {"eof", "read_err"}

\* Commands that open a session under a handle of their own
NewSession ==
    \/ \E c \in Callers, h \in Handles, path \in CreatePaths : CreateSession(c, h, path)
    \/ \E c \in Callers, h \in Handles, e \in ResumeIds : ResumeSession(c, h, e)

\* Commands on any handle and the steps of the running commands
Commands ==
    \/ \E c \in Callers, o \in SpawnOutcomes : SpawnLaunch(c, o)
    \/ \E c \in Callers : SpawnInsert(c)
    \/ \E c \in Callers : SpawnPromote(c)
    \/ \E c \in Callers, h \in Handles, path \in Paths : SendInspect(c, h, path)
    \/ \E c \in Callers : SendResolve(c)
    \/ \E c \in Callers : SendRemove(c)
    \/ \E c \in Callers : SendKillWait(c)
    \/ \E c \in Callers : SendWrite(c)
    \/ \E c \in Callers : SendDirect(c)
    \/ \E c \in Callers, io \in WriteOutcomes : SendWriteDone(c, io)
    \/ \E c \in Callers, h \in Handles, ok \in BOOLEAN : KillRemove(c, h, ok)
    \/ \E c \in Callers : KillWait(c)

\* The stdout reader tasks and the children
StdoutReaders ==
    \/ \E p \in Pids, line \in StdoutLines : StdoutLine(p, line)
    \/ \E p \in Pids, cause \in EndCauses : StdoutEnd(p, cause)
    \/ \E p \in Pids : ChildExit(p)

\* The stderr reader tasks, each in one step
StderrReaders == \E p \in Pids, cause \in EndCauses, more \in BOOLEAN : StderrEnd(p, cause, more)

Running == Commands \/ StdoutReaders \/ StderrReaders

Next == NewSession \/ Running

Spec == Init /\ [][Next]_vars

\* Spec with the stderr reader tasks taking their lines one by one
StderrByLine ==
    \/ \E p \in Pids : StderrLine(p)
    \/ \E p \in Pids, cause \in EndCauses : StderrEnd(p, cause, FALSE)

NextStderr == NewSession \/ Commands \/ StdoutReaders \/ StderrByLine

SpecStderr == Init /\ [][NextStderr]_vars

\* Spec with the failures to capture a stream handle added to the outcomes of
\* spawn
CaptureFails == \E c \in Callers, o \in CaptureFailures : SpawnLaunch(c, o)

NextCapture == Next \/ CaptureFails

SpecCapture == Init /\ [][NextCapture]_vars

\* SpecCapture with the stdin handle missing added to the outcomes of spawn
StdinFails == \E c \in Callers : SpawnLaunch(c, StdinMissing)

NextStdin == NextCapture \/ StdinFails

SpecStdin == Init /\ [][NextStdin]_vars

----------------------------------------------------------------------------
(* A session in use: the state Spec reaches when create_session and a first *)
(* send_message on the handle have returned Ok (UsedReachable below), with  *)
(* the budget of commands restored.                                         *)

UsedHandle == CHOOSE h \in Handles : TRUE

UsedRecord == [NewProcess(1, "p1") EXCEPT !.stdin = FALSE, !.status = "Running"]

UsedChild == [state |-> "live", h |-> UsedHandle, msgs |-> 1, closed |-> TRUE]

\* A child of an earlier session, killed and removed, its readers ended
SpentChild == [state |-> "dead", h |-> NoId, msgs |-> 0, closed |-> FALSE]

\* The children and reader tasks of the used session, the last of the Pids
\* spent on an earlier session or not
UsedChildren(spent) ==
    [p \in Pids |-> IF p = 1 THEN UsedChild
                    ELSE IF spent /\ p > MaxCalls THEN SpentChild ELSE NoChild]

UsedReaders(spent) ==
    [p \in Pids |-> IF p = 1 THEN "reading"
                    ELSE IF spent /\ p > MaxCalls THEN "done" ELSE "none"]

InitUsed ==
    /\ processes = MapInsert(EmptyMap, UsedHandle, UsedRecord)
    /\ claude_session_map = EmptyMap
    /\ procsLock = NoLock
    /\ children = UsedChildren(TRUE)
    /\ outPc = UsedReaders(TRUE)
    /\ errPc = UsedReaders(TRUE)
    /\ call = [c \in Callers |-> IdleCall]
    /\ fresh = Handles \ {UsedHandle}
    /\ ncalls = 0
    /\ resolvedEvents = [h \in Handles |-> 0]
    /\ had_stderr = [p \in Pids |-> FALSE]
    /\ errWhileActive = [p \in Pids |-> FALSE]
    /\ statusEvents = [p \in Pids |-> IF p = 1 THEN [NoEvents EXCEPT !.active = 1]
                                      ELSE NoEvents]
    /\ NotWatching

SpecUsed == InitUsed /\ [][Running]_vars

\* The used session with no earlier one, under the commands and the lines of
\* the stdout readers: two send_message calls can each launch a process
\* while the first child's reader is still there.
InitSeed ==
    /\ processes = MapInsert(EmptyMap, UsedHandle, UsedRecord)
    /\ claude_session_map = EmptyMap
    /\ procsLock = NoLock
    /\ children = UsedChildren(FALSE)
    /\ outPc = UsedReaders(FALSE)
    /\ errPc = UsedReaders(FALSE)
    /\ call = [c \in Callers |-> IdleCall]
    /\ fresh = Handles \ {UsedHandle}
    /\ ncalls = 0
    /\ resolvedEvents = [h \in Handles |-> 0]
    /\ had_stderr = [p \in Pids |-> FALSE]
    /\ errWhileActive = [p \in Pids |-> FALSE]
    /\ statusEvents = [p \in Pids |-> IF p = 1 THEN [NoEvents EXCEPT !.active = 1]
                                      ELSE NoEvents]
    /\ NotWatching

NextSeed ==
    \/ Commands
    \/ \E p \in Pids, line \in StdoutLines : StdoutLine(p, line)

SpecSeed == InitSeed /\ [][NextSeed]_vars

\* Spec reaches the state SpecUsed starts from (up to the callers' results
\* and the count of commands).
UsedReachable ==
    /\ processes = MapInsert(EmptyMap, UsedHandle, UsedRecord)
    /\ claude_session_map = EmptyMap
    /\ procsLock = NoLock
    /\ children = [p \in Pids |-> IF p = 1 THEN UsedChild ELSE NoChild]
    /\ outPc = [p \in Pids |-> IF p = 1 THEN "reading" ELSE "none"]
    /\ errPc = [p \in Pids |-> IF p = 1 THEN "reading" ELSE "none"]
    /\ \A c \in Callers : call[c].pc \in {"idle", "done"}
    /\ resolvedEvents = [h \in Handles |-> 0]
    /\ had_stderr = [p \in Pids |-> FALSE]
    /\ errWhileActive = [p \in Pids |-> FALSE]
    /\ statusEvents = [p \in Pids |-> IF p = 1 THEN [NoEvents EXCEPT !.active = 1]
                                      ELSE NoEvents]
    /\ NotWatching

----------------------------------------------------------------------------
(* One stdout stream, line by line: a session that create_session has set *)
(* up, its child about to write the lines of `emitted`.                    *)

MaxLines == 2

Counters(vs) == {NoCounter} \cup {[kind |-> "u64", v |-> x] : x \in vs}

\* Values of a `usage` object; a counter that is no unsigned integer (the
\* string "10", say) is tried in the first place.
Usages ==
    (Counters({10}) \cup {[kind |-> "other", v |-> 10]})
        \X Counters({5}) \X Counters({3}) \X Counters({7})

ResultLines ==
    {[PlainLine EXCEPT !.valid = TRUE, !.type = "result", !.sid = s,
                       !.has_usage = TRUE, !.usage = u] :
        s \in {NoId, "e1"}, u \in Usages}
    \cup {[PlainLine EXCEPT !.valid = TRUE, !.type = "result", !.sid = s] : s \in {NoId, "e1"}}

SystemLines ==
    {[PlainLine EXCEPT !.valid = TRUE, !.type = "system", !.subtype = st, !.sid = s] :
        st \in {"init", "compaction"}, s \in {NoId, "e1"}}

ParseLines ==
    {PlainLine, [PlainLine EXCEPT !.utf8 = FALSE],
     [PlainLine EXCEPT !.valid = TRUE, !.type = "other"]}
        \cup SystemLines \cup ResultLines

LineSeqs == UNION {[1..n -> ParseLines] : n \in 0..MaxLines}

InitParse ==
    /\ processes = MapInsert(EmptyMap, UsedHandle,
                             [NewProcess(1, "p1") EXCEPT !.status = "Running"])
    /\ claude_session_map = EmptyMap
    /\ procsLock = NoLock
    /\ children = [p \in Pids |-> IF p = 1
                                  THEN [NoChild EXCEPT !.state = "live", !.h = UsedHandle]
                                  ELSE NoChild]
    /\ outPc = [p \in Pids |-> IF p = 1 THEN "reading" ELSE "none"]
    /\ errPc = [p \in Pids |-> IF p = 1 THEN "reading" ELSE "none"]
    /\ had_stderr = [p \in Pids |-> FALSE]
    /\ errWhileActive = [p \in Pids |-> FALSE]
    /\ call = [c \in Callers |-> IdleCall]
    /\ fresh = Handles \ {UsedHandle}
    /\ ncalls = 0
    /\ resolvedEvents = [h \in Handles |-> 0]
    /\ statusEvents = [p \in Pids |-> IF p = 1 THEN [NoEvents EXCEPT !.active = 1]
                                      ELSE NoEvents]
    /\ watched = 1
    /\ emitted \in LineSeqs
    /\ nread = 0
    /\ published = << >>

NextParse ==
    \/ \E line \in ParseLines : StdoutLine(watched, line)
    \/ \E cause \in EndCauses : StdoutEnd(watched, cause)
    \/ ChildExit(watched)

SpecParse == InitParse /\ [][NextParse]_vars

----------------------------------------------------------------------------
(* The path of the CLI binary: resolve_cli_path, which spawn calls, and      *)
(* detect_cli_path, over every set of existing install locations             *)

\* The fixed list of install locations, the last two under the home
\* directory when dirs::home_dir() gives one
FixedCandidates ==
    << "/opt/homebrew/bin/claude", "/usr/local/bin/claude", "/usr/bin/claude" >>

HomeCandidates == << "~/.npm/bin/claude", "~/.local/bin/claude" >>

Candidates(home) == IF home THEN FixedCandidates \o HomeCandidates ELSE FixedCandidates

AllCandidates == {Candidates(TRUE)[i] : i \in 1..Len(Candidates(TRUE))}

\* `for path in &candidates { if Path::new(path).exists() { return ... } }`
FirstExisting(cands, existing) ==
    LET found == {i \in 1..Len(cands) : cands[i] \in existing}
    IN IF found = {} THEN NoId
       ELSE cands[CHOOSE i \in found : \A j \in found : i <= j]

\* resolve_cli_path: Ok(path), or the error
ResolveCliPath(provided, home, existing) ==
    IF provided # NoId THEN provided
    ELSE LET first == FirstExisting(Candidates(home), existing)
         IN IF first # NoId THEN first ELSE "binary_not_found"

\* detect_cli_path: `which claude` first, then the list; NoId standing for
\* None
DetectCliPath(which, home, existing) ==
    IF which # NoId THEN which ELSE FirstExisting(Candidates(home), existing)

\* An explicitly supplied path, and what the shell resolves for `claude`
\* (a place outside the list, or a place of the list)
ProvidedPaths == {NoId, "/custom/claude"}

WhichPaths == {NoId, "~/.nvm/bin/claude", "/usr/local/bin/claude"}

\* The installations: the places of the list that exist, and the answer of
\* `which`, which names an existing place
Installations ==
    {inst \in [existing : SUBSET AllCandidates, which : WhichPaths] :
        inst.which \in AllCandidates => inst.which \in inst.existing}

\* The two functions have no state: one call in a behaviour tries them.
FirstCall(c) == CanBegin(c) /\ \A d \in Callers : call[d].pc = "idle"

ResolveCall(c, provided, home, inst) ==
    /\ FirstCall(c)
    /\ ncalls' = ncalls + 1
    /\ call' = [call EXCEPT ![c] =
                  [IdleCall EXCEPT !.op = "resolve_cli_path", !.pc = "done",
                                   !.cli = provided, !.home = home,
                                   !.existing = inst.existing, !.which = inst.which,
                                   !.ret = ResolveCliPath(provided, home, inst.existing)]]
    /\ UNCHANGED << processes, claude_session_map, procsLock, children,
                    readerVars, fresh, eventVars >>

DetectCall(c, home, inst) ==
    /\ FirstCall(c)
    /\ ncalls' = ncalls + 1
    /\ call' = [call EXCEPT ![c] =
                  [IdleCall EXCEPT !.op = "detect_cli_path", !.pc = "done",
                                   !.home = home,
                                   !.existing = inst.existing, !.which = inst.which,
                                   !.ret = DetectCliPath(inst.which, home, inst.existing)]]
    /\ UNCHANGED << processes, claude_session_map, procsLock, children,
                    readerVars, fresh, eventVars >>

NextResolve ==
    \/ \E c \in Callers, provided \in ProvidedPaths, home \in BOOLEAN,
          inst \in Installations : ResolveCall(c, provided, home, inst)
    \/ \E c \in Callers, home \in BOOLEAN, inst \in Installations :
          DetectCall(c, home, inst)

SpecResolve == Init /\ [][NextResolve]_vars

----------------------------------------------------------------------------
(* The dispatch of parse_line over the discriminants of a line *)

Inner(type) == [NoInner EXCEPT !.present = TRUE, !.type = type]

\* "content_block_start" events: a tool_use block, a text block, no block
\* type; with and without a name; the id a string or another value
BlockStarts ==
    {[Inner("content_block_start") EXCEPT !.block_type = b, !.name = nm, !.id = i] :
        b \in {"tool_use", "text", ""}, nm \in {Str("Bash"), NoStr},
        i \in {Str("t1"), NotStr}}

\* "content_block_delta" events: without a delta, and with a delta of a
\* known, unknown or missing type whose text and partial_json are strings,
\* absent or (text) another value
BlockDeltas ==
    {Inner("content_block_delta")}
    \cup {[Inner("content_block_delta") EXCEPT !.has_delta = TRUE, !.delta_type = d,
                                               !.text = t, !.partial_json = j] :
            d \in {"text_delta", "input_json_delta", "thinking_delta", ""},
            t \in {Str("hi"), NoStr, NotStr}, j \in {Str("{"), NoStr}}

\* "message_delta" events: without usage and with a usage object
MessageDeltas ==
    {Inner("message_delta")}
    \cup {[Inner("message_delta") EXCEPT !.has_usage = TRUE, !.usage = u] :
            u \in {<< NoCounter, NoCounter, NoCounter, NoCounter >>,
                   << [kind |-> "u64", v |-> 10], [kind |-> "u64", v |-> 5],
                      NoCounter, NoCounter >>,
                   << [kind |-> "other", v |-> 10], [kind |-> "u64", v |-> 5],
                      [kind |-> "u64", v |-> 3], [kind |-> "u64", v |-> 7] >>}}

\* Nested events: the recognised types, an unrecognised one and none
InnerEvents ==
    BlockStarts \cup BlockDeltas \cup MessageDeltas
        \cup {Inner(t) : t \in {"message_start", "content_block_stop", "message_stop",
                                "ping", ""}}

JsonLine(type) == [PlainLine EXCEPT !.valid = TRUE, !.type = type]

\* The lines of the dispatch: stream_event lines with and without a nested
\* event, a nested event under another type, system lines of every kind of
\* subtype, assistant and result lines, an unrecognised and a missing type,
\* an unrecognised type with a session_id, and the lines that are no JSON
\* (text, blank, not UTF-8)
DispatchLines ==
    {[JsonLine("stream_event") EXCEPT !.inner = e] : e \in InnerEvents}
    \cup {[JsonLine("other") EXCEPT !.inner = Inner("message_stop")],
          [JsonLine("other") EXCEPT !.sid = "e1"]}
    \cup {[JsonLine("system") EXCEPT !.subtype = st] :
            st \in {"init", "compaction", "hook_started", ""}}
    \cup {JsonLine(t) : t \in {"stream_event", "assistant", "result", "other", ""}}
    \cup {PlainLine, [PlainLine EXCEPT !.blank = TRUE], [PlainLine EXCEPT !.utf8 = FALSE]}

DispatchSeqs == UNION {[1..n -> DispatchLines] : n \in 0..MaxLines}

InitDispatch ==
    /\ processes = MapInsert(EmptyMap, UsedHandle,
                             [NewProcess(1, "p1") EXCEPT !.status = "Running"])
    /\ claude_session_map = EmptyMap
    /\ procsLock = NoLock
    /\ children = [p \in Pids |-> IF p = 1
                                  THEN [NoChild EXCEPT !.state = "live", !.h = UsedHandle]
                                  ELSE NoChild]
    /\ outPc = [p \in Pids |-> IF p = 1 THEN "reading" ELSE "none"]
    /\ errPc = [p \in Pids |-> IF p = 1 THEN "reading" ELSE "none"]
    /\ had_stderr = [p \in Pids |-> FALSE]
    /\ errWhileActive = [p \in Pids |-> FALSE]
    /\ call = [c \in Callers |-> IdleCall]
    /\ fresh = Handles \ {UsedHandle}
    /\ ncalls = 0
    /\ resolvedEvents = [h \in Handles |-> 0]
    /\ statusEvents = [p \in Pids |-> IF p = 1 THEN [NoEvents EXCEPT !.active = 1]
                                      ELSE NoEvents]
    /\ watched = 1
    /\ emitted \in DispatchSeqs
    /\ nread = 0
    /\ published = << >>

NextDispatch ==
    \/ \E line \in DispatchLines : StdoutLine(watched, line)
    \/ \E cause \in EndCauses : StdoutEnd(watched, cause)
    \/ ChildExit(watched)

SpecDispatch == InitDispatch /\ [][NextDispatch]_vars

----------------------------------------------------------------------------
(* The decision of send_message over every record a handle can have *)

InspectedRecords ==
    [child : {1}, stdin : BOOLEAN, project_path : Paths, status : Statuses]

InitInspect ==
    /\ \/ processes = EmptyMap
       \/ \E r \in InspectedRecords : processes = MapInsert(EmptyMap, UsedHandle, r)
    /\ claude_session_map = EmptyMap
    /\ procsLock = NoLock
    /\ children = [p \in Pids |-> IF p = 1 /\ processes # EmptyMap
                                  THEN [UsedChild EXCEPT !.msgs = 0, !.closed = FALSE]
                                  ELSE NoChild]
    /\ outPc = [p \in Pids |-> IF p = 1 /\ processes # EmptyMap THEN "reading" ELSE "none"]
    /\ errPc = [p \in Pids |-> IF p = 1 /\ processes # EmptyMap THEN "reading" ELSE "none"]
    /\ call = [c \in Callers |-> IdleCall]
    /\ fresh = Handles \ {UsedHandle}
    /\ ncalls = 0
    /\ resolvedEvents = [h \in Handles |-> 0]
    /\ had_stderr = [p \in Pids |-> FALSE]
    /\ errWhileActive = [p \in Pids |-> FALSE]
    /\ statusEvents = [p \in Pids |-> NoEvents]
    /\ NotWatching

NextInspect == \E c \in Callers, h \in Handles, path \in Paths : SendInspect(c, h, path)

SpecInspect == InitInspect /\ [][NextInspect]_vars

\* is_active over every record a handle can have.  The call takes the lock,
\* reads the record and returns; the boolean is kept in the call's ret.
BoolRet(b) == IF b THEN "true" ELSE "false"

IsActiveCall(c, h) ==
    /\ CanBegin(c)
    /\ procsLock = NoLock
    /\ ncalls' = ncalls + 1
    /\ call' = [call EXCEPT ![c] =
                  [IdleCall EXCEPT !.op = "is_active", !.pc = "done", !.h = h,
                                   !.ret = BoolRet(IsActive(processes, h))]]
    /\ UNCHANGED << processes, claude_session_map, procsLock, children,
                    readerVars, fresh, eventVars >>

NextActive == \E c \in Callers, h \in Handles : IsActiveCall(c, h)

SpecActive == InitInspect /\ [][NextActive]_vars

----------------------------------------------------------------------------
(* Properties *)

LiveChildren(h) == {p \in Pids : children[p].state = "live" /\ children[p].h = h}

\* Children a running spawn has launched and not registered yet
Pending(h) == {call[c].child : c \in {d \in Callers : call[d].pc = "sp_insert" /\ call[d].h = h}}

OneLiveChild ==
    \A h \in Handles :
        /\ Cardinality(LiveChildren(h)) <= 1
        /\ LiveChildren(h) \subseteq Held(h) \cup Pending(h)

NoLiveRecordReplaced ==
    \A h \in DOMAIN processes :
        (h \in DOMAIN processes' /\ processes'[h].child # processes[h].child)
            => children[processes[h].child].state # "live"

\* C1: every session handle has at most one live child process, the one its
\* record holds (or the one a running spawn is about to register), and no
\* insert into the registry replaces a record whose child is still live.
C1_AtMostOneLiveChild == [][NoLiveRecordReplaced /\ OneLiveChild']_vars

StdoutEnded(p) == outPc[p] = "reading" /\ outPc'[p] = "done"

StderrEnded(p) == errPc[p] = "reading" /\ errPc'[p] = "done"

\* C2: the stdout and stderr reader tasks of a killed process never change
\* the status of a record that holds another process: when such a reader
\* task ends, the record of every other process instance keeps its status.
C2_NoStaleReaderWrite ==
    [][\A p \in Pids :
          (children[p].state = "dead" /\ (StdoutEnded(p) \/ StderrEnded(p))) =>
              \A h \in DOMAIN processes :
                  processes[h].child # p =>
                      (h \in DOMAIN processes' /\ processes'[h].status = processes[h].status)]_vars

\* C3: Completed and Error are terminal: no step changes the status of a
\* record once it is Completed or Error, as long as the record stays.
C3_TerminalStatus ==
    [][\A h \in DOMAIN processes :
          (/\ processes[h].status \in {"Completed", "Error"}
           /\ h \in DOMAIN processes'
           /\ processes'[h].child = processes[h].child)
              => processes'[h].status = processes[h].status]_vars

\* create_session on h has returned Ok (to caller c0).
CreatedOk(c0, h) ==
    /\ call[c0].op = "create"
    /\ call[c0].pc = "done"
    /\ call[c0].ret = "ok"
    /\ call[c0].h = h

\* The step in which caller c starts the first send_message of a session
\* that create_session has set up: the only command before it is that one.
FirstSendStep(c) ==
    /\ ncalls = 1
    /\ ncalls' = 2
    /\ call[c].pc \in {"idle", "done"}
    /\ call'[c].op = "send"
    /\ \E c0 \in Callers : CreatedOk(c0, call'[c].h)

\* The write of a first send_message on the direct path, no other command
\* having started meanwhile: nothing was killed or launched by the call, and
\* the bytes go to the only process that was ever launched.
FirstSendWrites(c) ==
    (/\ call[c].pc = "sm_writing"
     /\ call'[c].pc = "done"
     /\ ~call[c].respawn
     /\ ncalls = 2
     /\ \E c0 \in Callers \ {c} : CreatedOk(c0, call[c].h))
        => /\ call[c].kills = 0
           /\ call[c].launches = 0
           /\ \A q \in Pids \ {processes[call[c].h].child} :
                  children[q].state = "unborn" /\ children'[q] = children[q]

\* C4 as stated: the first send_message of a created session never takes the
\* respawn path, whatever the reader tasks have done before, and writes to
\* the process of the original spawn.
C4_FirstSendNeverRespawns ==
    [][\A c \in Callers :
          /\ FirstSendStep(c) => ~call'[c].respawn
          /\ FirstSendWrites(c)]_vars

\* C4, amended: the first send_message of a created session takes the direct
\* path unless the record is already Completed when the registry is
\* inspected; on the direct path it kills and launches nothing and writes to
\* the process of the original spawn.
C4_FirstSendDirectUnlessCompleted ==
    [][\A c \in Callers :
          /\ (FirstSendStep(c) /\ GetStatus(processes, call'[c].h) # "Completed")
                => ~call'[c].respawn
          /\ (FirstSendStep(c) /\ GetStatus(processes, call'[c].h) = "Completed")
                => call'[c].respawn
          /\ FirstSendWrites(c)]_vars

C4_Witness ==
    \E c \in Callers, p \in Pids :
        /\ call[c].op = "send" /\ call[c].pc = "done" /\ call[c].ret = "ok"
        /\ ~call[c].respawn
        /\ \E c0 \in Callers \ {c} : CreatedOk(c0, call[c].h)
        /\ children[p].msgs = 1 /\ children[p].closed
        /\ \A q \in Pids \ {p} : children[q].state = "unborn"

AfterRemove == {"sm_killwait", "sp_launch", "sp_insert", "sp_promote", "sm_write", "sm_writing"}

AfterLaunch == {"sp_insert", "sp_promote", "sm_write", "sm_writing"}

\* C5 as stated: a send_message that found a record with its stdin closed or
\* its status Completed removes and kills the old record exactly once and
\* spawns exactly once, with the resolved id as resume directive.
C5_ExactlyOneKillAndSpawn ==
    \A c \in Callers :
        (call[c].op = "send" /\ call[c].respawn /\ call[c].seen # NoId) =>
            /\ call[c].pc \in AfterRemove =>
                   (call[c].kills = 1 /\ call[c].resume = call[c].csid)
            /\ call[c].pc \in AfterLaunch => call[c].launches = 1

ResolveStep(c) ==
    (call[c].pc = "sm_resolve" /\ call'[c].pc = "sm_remove") =>
        call'[c].csid = IF call[c].h \in DOMAIN claude_session_map
                        THEN claude_session_map[call[c].h]
                        ELSE call[c].h

RemoveStep(c) ==
    (call[c].pc = "sm_remove" /\ call'[c].pc # "sm_remove") =>
        LET h == call[c].h
        IN /\ call'[c].resume = call[c].csid
           /\ IF h \in DOMAIN processes
              THEN /\ h \notin DOMAIN processes'
                   /\ call'[c].kills = 1
                   /\ call'[c].removed = processes[h].child
                   /\ children'[processes[h].child].state = "dead"
              ELSE /\ call'[c].kills = 0
                   /\ processes' = processes
                   /\ children' = children

LaunchStep(c) ==
    (call[c].op = "send" /\ call[c].pc = "sp_launch" /\ call'[c].pc = "sp_insert") =>
        /\ call'[c].launches = 1
        /\ call[c].resume = call[c].csid
        /\ claude_session_map'[call[c].h] = call[c].csid

\* C5, amended: a send_message on the respawn path makes one removal and one
\* spawn; it kills the record's child exactly once if a record is still
\* registered at the removal and kills nothing if a concurrent command has
\* removed it; the resume directive is the map entry the call read (before
\* the removal) if there was one, else the handle.
C5_RespawnCycle ==
    [][\A c \in Callers :
          /\ ResolveStep(c)
          /\ RemoveStep(c)
          /\ LaunchStep(c)
          /\ call'[c].op = "send" => (call'[c].kills <= 1 /\ call'[c].launches <= 1)]_vars

C5_Witness ==
    \E c \in Callers :
        /\ call[c].op = "send" /\ call[c].respawn /\ call[c].seen # NoId
        /\ call[c].pc = "sm_write"
        /\ call[c].kills = 1 /\ call[c].launches = 1
        /\ call[c].resume \in ExtIds

\* C6: send_message takes the respawn path iff the handle has no record, or
\* the record has no stdin, or its status is Completed; with a stdin and any
\* of the other five statuses it takes the direct path.
C6_RespawnIff ==
    \A c \in Callers :
        call[c].op = "send" =>
            LET h == call[c].h
                absent == h \notin DOMAIN processes
            IN /\ call[c].pc = "sm_resolve" <=>
                      (absent \/ ~processes[h].stdin \/ processes[h].status = "Completed")
               /\ call[c].pc = "sm_direct" <=>
                      (/\ ~absent
                       /\ processes[h].stdin
                       /\ processes[h].status \in
                            {"Starting", "Running", "WaitingInput", "Paused", "Error"})

C6_Witness ==
    \E c \in Callers :
        /\ call[c].pc = "sm_direct"
        /\ processes[call[c].h].stdin
        /\ processes[call[c].h].status = "Error"

\* C7: on the respawn path the message is written to the stdin of the
\* process this call spawned: the write goes to that process, and the call
\* does not return without writing.
C7_WritesToOwnChild ==
    [][\A c \in Callers :
          /\ (/\ call[c].pc = "sm_writing" /\ call'[c].pc = "done"
              /\ call[c].respawn
              /\ call'[c].ret # "write_err")
                => processes[call[c].h].child = call[c].child
          /\ ~(call[c].pc = "sm_write" /\ call'[c].pc = "done")]_vars

\* C8: the session-id-resolved event is published at most once per handle.
C8_ResolvedAtMostOnce == \A h \in Handles : resolvedEvents[h] <= 1

C8_Witness ==
    \E h \in Handles, p \in Pids, q \in Pids :
        /\ p # q
        /\ children[p].h = h /\ children[q].h = h
        /\ outPc[p] = "done" /\ outPc[q] = "reading"
        /\ resolvedEvents[h] = 1

\* C9: no step of a reader task (a step that is not a step of a command)
\* changes or removes an entry the session id map already holds.
C9_LinesKeepEntry ==
    [][(call' = call) =>
          \A h \in DOMAIN claude_session_map :
              /\ h \in DOMAIN claude_session_map'
              /\ claude_session_map'[h] = claude_session_map[h]]_vars

C9_Witness ==
    \E h \in Handles, p \in Pids :
        /\ h \in DOMAIN claude_session_map
        /\ claude_session_map[h] \in ExtIds
        /\ resolvedEvents[h] = 1
        /\ children[p].h = h /\ outPc[p] = "reading"
        /\ children[p].state = "live"

\* The step in which caller c invokes kill: it runs up to the kill().await.
KillBegins(c) ==
    /\ ncalls' = ncalls + 1
    /\ call[c].pc \in {"idle", "done"}
    /\ call'[c].op = "kill"
    /\ \A d \in Callers \ {c} : call'[d] = call[d]

\* C10: kill on a handle without a record returns Ok and changes nothing;
\* with a record, the record is removed whether or not the kill succeeds.
C10_KillRemoves ==
    [][\A c \in Callers :
          KillBegins(c) =>
              LET h == call'[c].h
              IN IF h \in DOMAIN processes
                 THEN /\ h \notin DOMAIN processes'
                      /\ claude_session_map' = claude_session_map
                      /\ call'[c].ret \in {"none", "kill_err", "ok"}
                 ELSE /\ call'[c].pc = "done"
                      /\ call'[c].ret = "ok"
                      /\ UNCHANGED << processes, claude_session_map, procsLock,
                                      children, readerVars, eventVars >>]_vars

C10_Witness ==
    \E c \in Callers :
        /\ call[c].op = "kill" /\ call[c].pc = "done" /\ call[c].ret = "kill_err"
        /\ call[c].h \notin DOMAIN processes
        /\ \E p \in Pids : children[p].h = call[c].h /\ children[p].state = "dead"

SpawnErrors == {"binary_not_found", "spawn_err"} \cup CaptureFailures

\* C11: when spawn returns an error (binary not found, launch failure, a
\* stream handle not captured), the registry and the session id map are as
\* they were before the call, no reader task was started and no event
\* published.
C11_FailedSpawnLeavesNothing ==
    [][\A c \in Callers :
          (call[c].pc = "sp_launch" /\ call'[c].pc = "done") =>
              /\ call'[c].ret \in SpawnErrors
              /\ processes' = processes
              /\ claude_session_map' = claude_session_map
              /\ UNCHANGED << readerVars, eventVars >>]_vars

C11_Witness ==
    \E c \in Callers, p \in Pids :
        /\ call[c].op = "send" /\ call[c].pc = "done"
        /\ call[c].ret \in CaptureFailures
        /\ children[p].h = call[c].h /\ children[p].state = "live"
        /\ outPc[p] = "none" /\ errPc[p] = "none"
        /\ call[c].h \notin DOMAIN claude_session_map
        /\ call[c].h \notin DOMAIN processes

\* The step in which caller c's write_all and shutdown return
WriteReturns(c) == call[c].pc = "sm_writing" /\ call'[c].pc = "done"

\* C12: if write_all or shutdown fails in send_message, on either path, the
\* call returns the error and the record keeps its stdin write end; the
\* write end is cleared only when both succeeded.
C12_FailedWriteKeepsStdin ==
    [][\A c \in Callers :
          WriteReturns(c) =>
              LET h == call[c].h
              IN /\ processes[h].stdin
                 /\ h \in DOMAIN processes'
                 /\ call'[c].ret \in WriteOutcomes
                 /\ call'[c].ret \in {"write_err", "shutdown_err"} => processes' = processes
                 /\ call'[c].ret = "ok" <=> ~processes'[h].stdin]_vars

C12_Witness ==
    \E c \in Callers, p \in Pids :
        /\ call[c].op = "send" /\ call[c].pc = "done" /\ call[c].ret = "shutdown_err"
        /\ Held(call[c].h) = {p}
        /\ processes[call[c].h].stdin
        /\ children[p].msgs = 1 /\ ~children[p].closed

\* C13 as stated: each stdin write end receives at most one message.
C13_AtMostOneMessage == \A p \in Pids : children[p].msgs <= 1

\* C13, amended: once a message was written to a child's stdin and the pipe
\* shut down, the pipe receives nothing more, the record that holds the
\* child has no stdin write end, and send_message on the handle decides for
\* the respawn as long as that record is there.
C13_ClosedPipeNotReused ==
    [][\A p \in Pids :
          /\ children[p].closed =>
                 (children'[p].closed /\ children'[p].msgs = children[p].msgs)
          /\ \A h \in DOMAIN processes' :
                 (children'[p].closed /\ processes'[h].child = p) =>
                     (~processes'[h].stdin /\ NeedsRespawn(processes', h))]_vars

C13_Witness ==
    \E c \in Callers, p \in Pids :
        /\ children[p].closed /\ children[p].msgs = 1
        /\ Held(call[c].h) = {p}
        /\ call[c].op = "send" /\ call[c].pc = "sm_resolve" /\ call[c].respawn
        /\ call[c].seen # NoId

\* A line that is valid structured data
Structured(line) == line.utf8 /\ line.valid

\* The events published for line i of the watched stream
EventsOf(i) == {k \in 1..Len(published) : published[k].line = i}

NamedEventsOf(i, name) == {k \in EventsOf(i) : published[k].name = name}

\* C14: a stdout line that is not valid structured data publishes no event
\* and does not stop the reader task: when the reader has stopped, every
\* line the child wrote has been taken and the child is gone, so the record
\* was not marked Completed because of the line.
C14_BadLineHarmless ==
    /\ \A i \in 1..nread : ~Structured(emitted[i]) => EventsOf(i) = {}
    /\ (watched # 0 /\ outPc[watched] = "done") =>
           /\ nread = Len(emitted)
           /\ children[watched].state # "live"

\* C17: the events of the lines of one process are published in the order
\* the child wrote the lines.
C17_EventsInLineOrder ==
    \A i \in 1..Len(published), j \in 1..Len(published) :
        i < j => published[i].line <= published[j].line

C17_Witness ==
    \E i \in 1..Len(published), j \in 1..Len(published) :
        i < j /\ published[i].line < published[j].line

\* The counters the claim expects for a usage object: the value of each
\* counter that is an unsigned integer, 0 for each other one
ExpectedCounters(usage) ==
    [k \in 1..4 |-> IF usage[k].kind = "u64" THEN usage[k].v ELSE 0]

\* C20: every parsed `result` line publishes exactly one message-complete
\* event, and one usage-update event iff it has a usage field, with the four
\* counters of the field (0 for a missing one); init with a session id and
\* then result with usage {10, 5} publish session-id-resolved with that id,
\* usage-update (10, 5, 0, 0) and message-complete.
C20_ResultEvents ==
    /\ \A i \in 1..nread :
          (Structured(emitted[i]) /\ emitted[i].type = "result") =>
              /\ Cardinality(NamedEventsOf(i, "claude:message_complete")) = 1
              /\ Cardinality(NamedEventsOf(i, "claude:usage_update"))
                     = IF emitted[i].has_usage THEN 1 ELSE 0
              /\ \A k \in NamedEventsOf(i, "claude:usage_update") :
                     published[k].usage = ExpectedCounters(emitted[i].usage)
    /\ (/\ nread = 2
        /\ Structured(emitted[1]) /\ emitted[1].type = "system"
        /\ emitted[1].subtype = "init" /\ emitted[1].sid = "e1"
        /\ Structured(emitted[2]) /\ emitted[2].type = "result"
        /\ emitted[2].has_usage
        /\ emitted[2].usage = << [kind |-> "u64", v |-> 10], [kind |-> "u64", v |-> 5],
                                 NoCounter, NoCounter >>)
          => /\ \E k \in NamedEventsOf(1, "claude:session_id_resolved") :
                    published[k].id = "e1"
             /\ \E k \in NamedEventsOf(2, "claude:usage_update") :
                    published[k].usage = << 10, 5, 0, 0 >>
             /\ NamedEventsOf(2, "claude:message_complete") # {}

C20_Witness ==
    /\ nread = 2
    /\ emitted[1].type = "system" /\ emitted[1].subtype = "init" /\ emitted[1].sid = "e1"
    /\ emitted[2].type = "result" /\ emitted[2].has_usage
    /\ \E k \in 1..Len(published) :
          published[k].name = "claude:usage_update" /\ published[k].usage = << 10, 5, 0, 0 >>
    /\ published[Len(published)].name = "claude:message_complete"

IoWaitPcs == {"sm_killwait", "sm_writing", "k_wait"}

\* C16 as stated: the registry lock is never held across an I/O wait, that
\* is, no command waiting for a kill to complete or for a write or shutdown
\* on a stdin pipe holds the `processes` mutex.
C16_NoLockAcrossIoWait ==
    \A c \in Callers : call[c].pc \in IoWaitPcs => procsLock # c

\* C18: is_active(handle) returns true exactly when the registry holds a
\* record for the handle whose status is Starting, Running or WaitingInput;
\* it returns false when there is no record and for Paused, Completed and
\* Error.
C18_IsActive ==
    \A c \in Callers :
        call[c].op = "is_active" =>
            LET h == call[c].h
                present == h \in DOMAIN processes
            IN /\ call[c].ret \in {"true", "false"}
               /\ call[c].ret = "true" <=>
                      (present /\ processes[h].status \in
                                    {"Starting", "Running", "WaitingInput"})
               /\ call[c].ret = "false" <=>
                      (~present \/ processes[h].status \in
                                    {"Paused", "Completed", "Error"})

C18_Witness ==
    \E c, d \in Callers :
        /\ call[c].op = "is_active" /\ call[c].ret = "true"
        /\ processes[call[c].h].status = "WaitingInput"
        /\ call[d].op = "is_active" /\ call[d].ret = "true"
        /\ c # d

\* C19: on the respawn path, when no resume id can be determined
\* send_message returns the cannot-resume error having removed, killed and
\* launched nothing; otherwise the resume id is the map entry for the handle
\* if there is one, else the handle itself.  Either way the step that
\* resolves the id leaves the registry, the map and the children alone.
C19_ResumeIdOrCannotResume ==
    [][\A c \in Callers :
          (call[c].pc = "sm_resolve" /\ call'[c] # call[c]) =>
              LET h == call[c].h
                  determined == IF h \in DOMAIN claude_session_map
                                THEN claude_session_map[h] ELSE h
              IN /\ UNCHANGED << processes, claude_session_map, children >>
                 /\ call'[c].kills = 0 /\ call'[c].launches = 0
                 /\ IF determined = NoId
                    THEN call'[c].pc = "done" /\ call'[c].ret = "cannot_resume"
                    ELSE /\ call'[c].pc = "sm_remove"
                         /\ call'[c].csid = determined
                         /\ call'[c].ret # "cannot_resume"]_vars

C19_Witness ==
    \E c \in Callers :
        /\ call[c].op = "send" /\ call[c].pc = "sm_remove"
        /\ call[c].h \in DOMAIN processes
        /\ call[c].h \in DOMAIN claude_session_map
        /\ call[c].csid = claude_session_map[call[c].h]
        /\ call[c].csid # call[c].h

\* The events the dispatcher derives from the variant of a line
VariantNames ==
    {"claude:tool_start", "claude:text_delta", "claude:tool_input_delta",
     "claude:usage_update", "claude:message_complete", "claude:compaction"}

VariantEventsOf(i) == {k \in EventsOf(i) : published[k].name \in VariantNames}

\* C21: every line taken by the reader that is not empty and parses as a
\* structured value has exactly one raw stream-event, whatever its
\* discriminant, published before every variant-specific event of the same
\* line; an empty line and a line that does not parse have none.
C21_OneRawEventFirst ==
    \A i \in 1..nread :
        IF Structured(emitted[i]) /\ ~emitted[i].blank
        THEN /\ Cardinality(NamedEventsOf(i, "claude:stream_event")) = 1
             /\ \A r \in NamedEventsOf(i, "claude:stream_event"), k \in VariantEventsOf(i) :
                    r < k
        ELSE NamedEventsOf(i, "claude:stream_event") = {}

C21_Witness ==
    /\ nread = 2
    /\ emitted[1].blank /\ EventsOf(1) = {}
    /\ emitted[2].type = "stream_event" /\ emitted[2].inner.type = "message_stop"
    /\ \E r \in NamedEventsOf(2, "claude:stream_event") :
          \E k \in VariantEventsOf(2) : r < k

\* The discriminants parse_line and handle_stream_event have an arm for
KnownTypes == {"stream_event", "system", "assistant", "result"}

KnownInnerTypes ==
    {"message_start", "content_block_start", "content_block_delta",
     "content_block_stop", "message_delta", "message_stop"}

\* A parseable line whose top-level or nested discriminant is not recognised
Unrecognised(line) ==
    /\ Structured(line) /\ ~line.blank
    /\ \/ line.type \notin KnownTypes
       \/ line.type = "stream_event" /\ line.inner.present
                                     /\ line.inner.type \notin KnownInnerTypes

\* The events the dispatcher published for line j, in order
DispatchedFor(j) ==
    SelectSeq(published,
              LAMBDA e : e.line = j /\ e.name # "claude:session_id_resolved")

ExpectedOfInner(inner, name) ==
    LET one(b) == IF b THEN 1 ELSE 0
    IN CASE name = "claude:tool_start" ->
              one(inner.type = "content_block_start" /\ inner.block_type = "tool_use")
         [] name = "claude:text_delta" ->
              one(/\ inner.type = "content_block_delta" /\ inner.has_delta
                  /\ inner.delta_type = "text_delta" /\ inner.text.kind = "str")
         [] name = "claude:tool_input_delta" ->
              one(/\ inner.type = "content_block_delta" /\ inner.has_delta
                  /\ inner.delta_type = "input_json_delta"
                  /\ inner.partial_json.kind = "str")
         [] name = "claude:usage_update" ->
              one(inner.type = "message_delta" /\ inner.has_usage)
         [] name = "claude:message_complete" -> one(inner.type = "message_stop")
         [] OTHER -> 0

\* C28: for a parseable stream_event line the nested discriminant decides
\* the variant-specific events: one tool-start (with the tool's name and id)
\* iff content_block_start of a tool_use block; one text-delta iff
\* content_block_delta with a text_delta carrying a string; one
\* tool-input-delta iff content_block_delta with an input_json_delta carrying
\* a string; one usage-update iff message_delta with usage; one
\* message-complete for message_stop; nothing for message_start,
\* content_block_stop and for a line without a nested event.
C28_StreamEventVariants ==
    \A i \in 1..nread :
        (Structured(emitted[i]) /\ emitted[i].type = "stream_event") =>
            LET inner == emitted[i].inner
            IN /\ \A name \in VariantNames :
                      Cardinality(NamedEventsOf(i, name)) =
                          IF inner.present THEN ExpectedOfInner(inner, name) ELSE 0
               /\ \A k \in NamedEventsOf(i, "claude:tool_start") :
                      /\ inner.name.kind = "str" => published[k].text = inner.name.v
                      /\ inner.id.kind = "str" => published[k].id = inner.id.v
               /\ \A k \in NamedEventsOf(i, "claude:text_delta") :
                      published[k].text = inner.text.v
               /\ \A k \in NamedEventsOf(i, "claude:tool_input_delta") :
                      published[k].text = inner.partial_json.v

C28_Witness ==
    /\ nread = 2
    /\ emitted[1].inner.type = "content_block_start"
    /\ \E k \in NamedEventsOf(1, "claude:tool_start") :
          published[k].text = "Bash" /\ published[k].id = "t1"
    /\ emitted[2].inner.type = "content_block_delta"
    /\ \E k \in NamedEventsOf(2, "claude:tool_input_delta") : published[k].text = "{"

\* C29: a parseable system line has exactly one compaction event iff its
\* subtype is "compaction" and no other variant-specific event; init, any
\* other subtype and a missing subtype give none; a parseable assistant
\* line has no variant-specific event.
C29_SystemAndAssistant ==
    \A i \in 1..nread :
        Structured(emitted[i]) =>
            /\ emitted[i].type = "system" =>
                   /\ Cardinality(NamedEventsOf(i, "claude:compaction")) =
                          IF emitted[i].subtype = "compaction" THEN 1 ELSE 0
                   /\ VariantEventsOf(i) = NamedEventsOf(i, "claude:compaction")
            /\ emitted[i].type = "assistant" => VariantEventsOf(i) = {}

C29_Witness ==
    /\ nread = 2
    /\ emitted[1].type = "system" /\ emitted[1].subtype = "compaction"
    /\ Cardinality(VariantEventsOf(1)) = 1
    /\ emitted[2].type = "assistant" /\ Structured(emitted[2])
    /\ Cardinality(EventsOf(2)) = 1

\* The removal of a respawn: the record is gone after it and the call goes on
\* to await the kill or to launch, whatever Child::kill returned
RespawnRemoves(c) ==
    (call[c].pc = "sm_remove" /\ call'[c].pc # "sm_remove") =>
        /\ call[c].h \notin DOMAIN processes'
        /\ call'[c].pc \in {"sm_killwait", "sp_launch"}
        /\ call'[c].launches = 0

\* The launch of a respawn comes after the end of the old child
RespawnLaunchesAfterKill(c) ==
    (call[c].op = "send" /\ call[c].pc = "sp_launch" /\ call'[c].pc = "sp_insert") =>
        /\ call[c].removed # 0 => children[call[c].removed].state # "live"
        /\ call'[c].launches = 1

\* The positions of a send_message between its removal and its insertion
RespawnGap == {"sm_killwait", "sp_launch", "sp_insert"}

RespawnGapEmpty(c) ==
    (call'[c].op = "send" /\ call'[c].pc \in RespawnGap) =>
        call'[c].h \notin DOMAIN processes'

\* C23 as stated: within one respawn the old record is removed, the old
\* child's termination is requested and awaited, and only then the new
\* process is launched and inserted; removal and launch do not depend on the
\* result of the kill; between the removal and the insertion the handle has
\* no record.
C23_RespawnOrder ==
    [][\A c \in Callers :
          /\ RespawnRemoves(c)
          /\ RespawnLaunchesAfterKill(c)
          /\ RespawnGapEmpty(c)]_vars

\* C24 as stated: a spawn with a resume id R that succeeds has put R into the
\* map under the handle before the stdout reader of the new process starts
\* (get_claude_session_id returns R then), and no line of that process
\* changes the entry or publishes a session-id-resolved event: such an event
\* is published only for a handle without an entry, and entries stay.  A
\* spawn without a resume id leaves the map as it is.
C24_ResumeSeedsMap ==
    [][/\ \A c \in Callers :
            LET h == call[c].h
            IN /\ (call[c].pc = "sp_launch" /\ call'[c].pc = "sp_insert") =>
                      IF call[c].resume # NoId
                      THEN GetClaudeSessionId(claude_session_map', h) = call[c].resume
                      ELSE claude_session_map' = claude_session_map
               /\ (call[c].pc = "sp_insert" /\ call'[c].pc = "sp_promote"
                                            /\ call[c].resume # NoId) =>
                      /\ outPc'[call[c].child] = "reading"
                      /\ GetClaudeSessionId(claude_session_map', h) = call[c].resume
       /\ \A h \in DOMAIN claude_session_map :
            /\ h \in DOMAIN claude_session_map'
            /\ resolvedEvents'[h] = resolvedEvents[h]
            /\ (\E p \in Pids : outPc[p] = "reading" /\ children[p].h = h
                                 /\ \A c \in Callers : call'[c] = call[c]) =>
                   claude_session_map'[h] = claude_session_map[h]]_vars

\* The steps of spawn in which the handles are taken and the record is
\* registered
TakesHandles(c) == call[c].pc = "sp_launch" /\ call'[c] # call[c]

RegistersRecord(c) == call[c].pc = "sp_insert" /\ call'[c].pc = "sp_promote"

C26_RespawnWorkingDir ==
    [][\A c \in Callers :
          LET h == call[c].h
          IN /\ (call[c].pc = "sm_resolve" /\ call'[c].pc = "sm_remove") =>
                    call'[c].path = IF h \in DOMAIN processes
                                    THEN processes[h].project_path
                                    ELSE call[c].path
             /\ (/\ call[c].op = "send"
                 /\ call[c].pc \in {"sm_remove", "sm_killwait", "sp_launch", "sp_insert"}
                 /\ call'[c].pc # "done") =>
                    call'[c].path = call[c].path
             /\ (call[c].op = "send" /\ RegistersRecord(c)) =>
                    processes'[h].project_path = call[c].path]_vars

C26_Witness ==
    \E c \in Callers :
        /\ call[c].op = "send" /\ call[c].respawn /\ call[c].seen # NoId
        /\ call[c].pc = "sm_write"
        /\ call[c].h \in DOMAIN processes
        /\ processes[call[c].h].project_path = call[c].path
        /\ call[c].path \in CreatePaths
        /\ processes[call[c].h].child = call[c].child

\* C27 as stated: the binary path of spawn is the explicitly supplied path
\* if there is one; else the first existing entry of the ordered list of
\* install locations; else the path the shell resolves for the command;
\* and the binary-not-found error only when all three give nothing.
C27_ThreeStepResolution ==
    \A c \in Callers :
        call[c].op = "resolve_cli_path" =>
            LET first == FirstExisting(Candidates(call[c].home), call[c].existing)
            IN call[c].ret =
                  IF call[c].cli # NoId THEN call[c].cli
                  ELSE IF first # NoId THEN first
                  ELSE IF call[c].which # NoId THEN call[c].which
                  ELSE "binary_not_found"

\* The step in which caller c's send_message returns Ok(())
SendSucceeds(c) ==
    /\ call[c].op = "send" /\ call[c].pc # "done"
    /\ call'[c].pc = "done" /\ call'[c].ret = "ok"

\* C30 as stated: whenever send_message returns success its message has been
\* written to the stdin of exactly one process and that pipe has been shut
\* down, also when two calls on one handle overlap or a call overlaps a
\* kill.
C30_SuccessMeansWritten ==
    [][\A c \in Callers :
          SendSucceeds(c) =>
              \E p \in Pids :
                  /\ children'[p].msgs = children[p].msgs + 1
                  /\ children'[p].closed
                  /\ \A q \in Pids \ {p} : children'[q] = children[q]]_vars

----------------------------------------------------------------------------
(* Scheduling: the runtime runs every task that can take a step, an awaited *)
(* kill, write or shutdown completes, and a reader whose stream is at its   *)
(* end gets Ok(None).  Nothing obliges the frontend to send a command, a    *)
(* child to exit or to write, or a read to fail.                            *)

Pursued ==
    \/ \E c \in Callers, o \in SpawnOutcomes : SpawnLaunch(c, o)
    \/ \E c \in Callers : SpawnInsert(c)
    \/ \E c \in Callers : SpawnPromote(c)
    \/ \E c \in Callers : SendResolve(c)
    \/ \E c \in Callers : SendRemove(c)
    \/ \E c \in Callers : SendKillWait(c)
    \/ \E c \in Callers : SendWrite(c)
    \/ \E c \in Callers : SendDirect(c)
    \/ \E c \in Callers, io \in WriteOutcomes : SendWriteDone(c, io)
    \/ \E c \in Callers : KillWait(c)
    \/ \E p \in Pids : StdoutEnd(p, "eof")
    \/ \E p \in Pids, more \in BOOLEAN : StderrEnd(p, "eof", more)

SpecFair == Init /\ [][Next]_vars /\ WF_vars(Pursued)

\* The stdout of child p is at its end: the child is gone, or the reader has
\* left its loop
StdoutAtEnd(p) == children[p].state = "dead" \/ outPc[p] = "done"

\* The registry holds the record of process instance p
RecordOf(p) == Held(children[p].h) = {p}

\* C31 as stated: under fair scheduling, if the stdout of a child has reached
\* its end and the record of that process instance is never removed, then
\* from some moment on the record's status is never Starting, Running or
\* WaitingInput again (is_active is false for good).
C31_EndedRecordNotActive ==
    \A p \in Pids :
        <>[](StdoutAtEnd(p) /\ RecordOf(p)) => <>[]~IsActive(processes, children[p].h)

\* A reader task of process instance p publishes `completed` or `error`
PublishesEnd(p) ==
    \/ statusEvents'[p].completed > statusEvents[p].completed
    \/ statusEvents'[p].error > statusEvents[p].error

\* The process instances launched for the handle of p after p (the OS hands
\* out the pids in increasing order)
Successors(p) == {q \in Pids : q > p /\ children[q].h = children[p].h}

ActiveBeforeEnd(p) == PublishesEnd(p) => statusEvents[p].active >= 1

NoOldEndAfterNewActive(p) ==
    PublishesEnd(p) => \A q \in Successors(p) : statusEvents[q].active = 0

\* C32 as stated: the `active` event of a process instance precedes every
\* `completed` and `error` event of its reader tasks, and no `completed` or
\* `error` event of an old instance is published after the `active` event
\* of an instance that replaced it.
C32_ActiveBeforeCompleted ==
    [][\A p \in Pids : ActiveBeforeEnd(p) /\ NoOldEndAfterNewActive(p)]_vars

\* C33: the stdout reader of a process instance publishes `completed` once,
\* in the step in which it leaves its loop and in no other step, whether or
\* not the handle has a record then; in that step the record found under
\* the handle, if there is one, becomes Completed, and without a record the
\* registry stays as it is.  A reader that has ended has published exactly
\* one `completed` event.
C33_CompletedOnceAtEnd ==
    [][\A p \in Pids :
          LET h == children[p].h
          IN /\ StdoutEnded(p) =>
                   /\ statusEvents'[p].completed = statusEvents[p].completed + 1
                   /\ processes' = IF h \in DOMAIN processes
                                   THEN [processes EXCEPT ![h].status = "Completed"]
                                   ELSE processes
             /\ ~StdoutEnded(p) =>
                   statusEvents'[p].completed = statusEvents[p].completed
             /\ statusEvents'[p].completed = IF outPc'[p] = "done" THEN 1 ELSE 0]_vars

C33_Witness ==
    \E p \in Pids, c \in Callers :
        /\ outPc[p] = "done" /\ statusEvents[p].completed = 1
        /\ children[p].h \notin DOMAIN processes
        /\ call[c].op = "kill" /\ call[c].pc = "done" /\ call[c].h = children[p].h
        /\ \A q \in Pids \ {p} : children[q].state = "unborn"

\* The step in which caller c invokes send_message
SendBegins(c) ==
    /\ ncalls' = ncalls + 1
    /\ call[c].pc \in {"idle", "done"}
    /\ call'[c].op = "send"
    /\ call'[c].pc \in {"sm_resolve", "sm_direct"}
    /\ \A d \in Callers \ {c} : call'[d] = call[d]

\* kill on handle h has returned
KillDone(h) ==
    \E d \in Callers : call[d].op = "kill" /\ call[d].pc = "done" /\ call[d].h = h

\* The step in which caller c's kill returns
KillReturns(c) ==
    /\ call'[c].op = "kill" /\ call'[c].pc = "done"
    /\ call'[c] # call[c]

\* C34: no step of kill changes the session id map, so get_claude_session_id
\* gives after kill what it gave before; when kill returns the handle has no
\* record (get_status gives None) and no reader task brings one back; the
\* send_message that follows finds no record and takes the respawn path, and
\* the id it hands to --resume is the entry the map holds for the handle
\* when it looks the id up.
C34_KillKeepsMap ==
    [][/\ (call' = call /\ ncalls' = ncalls) => DOMAIN processes' = DOMAIN processes
       /\ \A c \in Callers :
          /\ (KillBegins(c) \/ KillReturns(c)) =>
                LET h == call'[c].h
                IN /\ claude_session_map' = claude_session_map
                   /\ GetClaudeSessionId(claude_session_map', h)
                         = GetClaudeSessionId(claude_session_map, h)
          /\ KillReturns(c) => GetStatus(processes', call'[c].h) = NoId
          /\ (SendBegins(c) /\ KillDone(call'[c].h)
                            /\ GetStatus(processes, call'[c].h) = NoId) =>
                (call'[c].respawn /\ call'[c].pc = "sm_resolve")
          /\ (call[c].op = "send" /\ KillDone(call[c].h) /\ call[c].seen = NoId) =>
                LET h == call[c].h
                IN /\ (/\ call[c].pc = "sm_resolve" /\ call'[c] # call[c]
                       /\ h \in DOMAIN claude_session_map) =>
                         /\ call'[c].pc = "sm_remove"
                         /\ call'[c].csid = claude_session_map[h]
                   /\ (call[c].pc = "sm_remove" /\ call'[c] # call[c]) =>
                         call'[c].resume = call[c].csid
                   /\ (call[c].pc = "sp_launch" /\ call'[c].pc = "sp_insert") =>
                         /\ call'[c].resume = call[c].csid
                         /\ GetClaudeSessionId(claude_session_map', h) = call[c].csid]_vars

C34_Witness ==
    \E c \in Callers :
        /\ call[c].op = "send" /\ call[c].pc = "sp_insert" /\ call[c].seen = NoId
        /\ KillDone(call[c].h)
        /\ call[c].h \in DOMAIN claude_session_map
        /\ call[c].resume = claude_session_map[call[c].h]
        /\ call[c].resume \in ExtIds
        /\ children[call[c].child].state = "live"

----------------------------------------------------------------------------
(* Two sessions side by side: a second handle with a session in use, next  *)
(* to the commands and reader tasks of the first                            *)

OtherHandle == "h2"

AllHandles == Handles \cup {OtherHandle}

\* The child of the other session: the last of the Pids
OtherPid == MaxCalls + 1

OtherRecord == [NewProcess(OtherPid, "p2") EXCEPT !.stdin = FALSE, !.status = "Running"]

InitFrame ==
    /\ processes = MapInsert(EmptyMap, OtherHandle, OtherRecord)
    /\ claude_session_map \in {EmptyMap, MapInsert(EmptyMap, OtherHandle, "e2")}
    /\ procsLock = NoLock
    /\ children = [p \in Pids |-> IF p = OtherPid
                                  THEN [UsedChild EXCEPT !.h = OtherHandle]
                                  ELSE NoChild]
    /\ outPc = [p \in Pids |-> IF p = OtherPid THEN "reading" ELSE "none"]
    /\ errPc = [p \in Pids |-> IF p = OtherPid THEN "reading" ELSE "none"]
    /\ call = [c \in Callers |-> IdleCall]
    /\ fresh = Handles
    /\ ncalls = 0
    /\ resolvedEvents = [h \in AllHandles |-> 0]
    /\ had_stderr = [p \in Pids |-> FALSE]
    /\ errWhileActive = [p \in Pids |-> FALSE]
    /\ statusEvents = [p \in Pids |-> IF p = OtherPid THEN [NoEvents EXCEPT !.active = 1]
                                      ELSE NoEvents]
    /\ NotWatching

\* The line that carries a conversation id
IdLine == [PlainLine EXCEPT !.valid = TRUE, !.sid = "e1"]

\* The frontend task that drives a handle: commands on different handles
\* overlap, the commands on one handle follow each other
Driver(h) == IF h = OtherHandle THEN "c2" ELSE "c1"

\* create_session and resume_session on the first handle, send_message and
\* kill_session on both, and the steps of the commands and of the reader
\* tasks, every launch and every write succeeding and every stream ending
\* with its child
NextFrame ==
    \/ \E h \in Handles, path \in CreatePaths : CreateSession(Driver(h), h, path)
    \/ \E h \in Handles, e \in ResumeIds : ResumeSession(Driver(h), h, e)
    \/ \E h \in AllHandles : SendInspect(Driver(h), h, "p1")
    \/ \E h \in AllHandles : KillRemove(Driver(h), h, TRUE)
    \/ \E c \in Callers : SpawnLaunch(c, "ok")
    \/ \E c \in Callers : SpawnInsert(c)
    \/ \E c \in Callers : SpawnPromote(c)
    \/ \E c \in Callers : SendResolve(c)
    \/ \E c \in Callers : SendRemove(c)
    \/ \E c \in Callers : SendKillWait(c)
    \/ \E c \in Callers : SendWrite(c)
    \/ \E c \in Callers : SendDirect(c)
    \/ \E c \in Callers : SendWriteDone(c, "ok")
    \/ \E c \in Callers : KillWait(c)
    \/ \E p \in Pids : StdoutLine(p, IdLine)
    \/ \E p \in Pids : StdoutEnd(p, "eof")
    \/ \E p \in Pids, more \in BOOLEAN : StderrEnd(p, "eof", more)
    \/ \E p \in Pids : ChildExit(p)

SpecFrame == InitFrame /\ [][NextFrame]_vars

\* The step leaves what the registry and the session id map hold for handle g
\* as it is
SameFor(g) ==
    /\ (g \in DOMAIN processes') = (g \in DOMAIN processes)
    /\ g \in DOMAIN processes => processes'[g] = processes[g]
    /\ (g \in DOMAIN claude_session_map') = (g \in DOMAIN claude_session_map)
    /\ g \in DOMAIN claude_session_map => claude_session_map'[g] = claude_session_map[g]

OthersSame(h) == \A g \in AllHandles \ {h} : SameFor(g)

\* C35: every step changes the record, the status and the map entry of at
\* most one handle: a step of a command (spawn, send_message, kill, the
\* registration of an id) those of the command's handle, a step of a stdout
\* or stderr reader those of the handle its process was spawned for.
C35_OtherHandlesUntouched ==
    [][/\ \E h \in AllHandles : OthersSame(h)
       /\ \A c \in Callers : call'[c] # call[c] => OthersSame(call'[c].h)
       /\ \A p \in Pids : (StdoutEnded(p) \/ StderrEnded(p)) => OthersSame(children[p].h)
       /\ \A h \in AllHandles :
             resolvedEvents'[h] # resolvedEvents[h] => OthersSame(h)]_vars

C35_Witness ==
    /\ call["c1"].op = "send" /\ call["c1"].pc = "done" /\ call["c1"].ret = "ok"
    /\ call["c1"].h \in DOMAIN processes
    /\ processes[call["c1"].h].status = "Completed"
    /\ GetClaudeSessionId(claude_session_map, call["c1"].h) \in ExtIds
    /\ call["c2"].op = "idle"
    /\ GetStatus(processes, OtherHandle) = "Running"
    /\ processes[OtherHandle] = OtherRecord
    /\ GetClaudeSessionId(claude_session_map, OtherHandle) = "e2"

----------------------------------------------------------------------------
(* The two mutexes: what every command and every reader task locks and     *)
(* unlocks, in the order of the code.  A task between a lock and its       *)
(* unlock may be preempted or await I/O; a task at a lock waits until the  *)
(* mutex is free.                                                           *)

ProcsMutex == "processes"

MapMutex == "claude_session_map"

Lock(m) == [do |-> "lock", m |-> m]

Unlock(m) == [do |-> "unlock", m |-> m]

\* tokio::spawn of the two reader tasks
StartReaders == [do |-> "start", m |-> NoId]

\* `{ let guard = m.lock().await; ... }`: the guard dropped at the end of
\* its block
Scoped(m) == << Lock(m), Unlock(m) >>

SpawnLocksNested(resume) ==
    (IF resume THEN << Lock(MapMutex) >> ELSE << >>)
        \o Scoped(ProcsMutex)
        \o (IF resume THEN << Unlock(MapMutex) >> ELSE << >>)
        \o << StartReaders >> \o Scoped(ProcsMutex)

\* spawn: the seeding of the map (only with a resume id), the insertion, the
\* start of the reader tasks, the promotion
SpawnLocks(resume) ==
    (IF resume THEN Scoped(MapMutex) ELSE << >>)
        \o Scoped(ProcsMutex) \o << StartReaders >> \o Scoped(ProcsMutex)

\* send_message, `let (resolved_path, claude_session_id) = { ... }`: `procs`
\* is locked first and `map` inside; the guards are dropped in reverse order
ResolveLocks ==
    << Lock(ProcsMutex), Lock(MapMutex), Unlock(MapMutex), Unlock(ProcsMutex) >>

LockedCommands ==
    {"create", "send_direct", "send_respawn", "send_spawn_fails", "kill",
     "get_status", "is_active", "active_sessions", "get_claude_session_id",
     "register_claude_session_id"}

\* The locking of a command from its call to its return
LockProgram(op) ==
    CASE op = "create" -> SpawnLocks(FALSE)
      [] op = "send_direct" -> Scoped(ProcsMutex) \o Scoped(ProcsMutex)
      [] op = "send_respawn" ->
            Scoped(ProcsMutex) \o ResolveLocks \o Scoped(ProcsMutex)
                \o SpawnLocks(TRUE) \o Scoped(ProcsMutex)
      [] op = "send_spawn_fails" ->
            Scoped(ProcsMutex) \o ResolveLocks \o Scoped(ProcsMutex)
      [] op \in {"kill", "get_status", "is_active", "active_sessions"} ->
            Scoped(ProcsMutex)
      [] op \in {"get_claude_session_id", "register_claude_session_id"} ->
            Scoped(MapMutex)

\* The name under which a reader task holds a mutex
ReaderName(kind, p) == kind \o ToString(p)

MutexFree(m) ==
    IF m = ProcsMutex
    THEN procsLock = NoLock
    ELSE /\ \A c \in Callers : m \notin call[c].held
         /\ \A p \in Pids : outPc[p] # "map_locked"

\* A command is invoked
LockCommand(c, op) ==
    /\ CanBegin(c)
    /\ ncalls' = ncalls + 1
    /\ call' = [call EXCEPT ![c] =
                  [IdleCall EXCEPT !.op = op, !.pc = "locks", !.todo = LockProgram(op)]]
    /\ UNCHANGED << processes, claude_session_map, procsLock, children,
                    readerVars, fresh, eventVars >>

\* The command takes its next step: a lock (when the mutex is free), an
\* unlock, or the start of the reader tasks of the child it launched
LockStep(c) ==
    /\ call[c].pc = "locks"
    /\ LET o == Head(call[c].todo)
           rest == Tail(call[c].todo)
           after == [call[c] EXCEPT !.todo = rest,
                                    !.held = CASE o.do = "lock" -> @ \cup {o.m}
                                               [] o.do = "unlock" -> @ \ {o.m}
                                               [] OTHER -> @]
       IN /\ o.do = "lock" => MutexFree(o.m)
          /\ o.do = "start" => FreePids # {}
          /\ procsLock' = IF o.m # ProcsMutex THEN procsLock
                          ELSE IF o.do = "lock" THEN c ELSE NoLock
          /\ IF o.do = "start"
             THEN /\ children' = [children EXCEPT ![NextPid] =
                                     [NoChild EXCEPT !.state = "live", !.h = UsedHandle]]
                  /\ outPc' = [outPc EXCEPT ![NextPid] = "reading"]
                  /\ errPc' = [errPc EXCEPT ![NextPid] = "reading"]
             ELSE UNCHANGED << children, outPc, errPc >>
          /\ call' = [call EXCEPT ![c] = IF rest = << >> THEN Return(after, "ok") ELSE after]
    /\ UNCHANGED << processes, claude_session_map, had_stderr, errWhileActive,
                    fresh, ncalls, eventVars >>

\* stdout reader: a line with a session_id makes it lock the map; the end
\* of the stream makes it lock the registry, up to the end of the task
StdoutLocks(p) ==
    /\ \/ outPc[p] = "reading" /\ outPc' = [outPc EXCEPT ![p] = "map_wait"]
       \/ /\ outPc[p] = "map_wait" /\ MutexFree(MapMutex)
          /\ outPc' = [outPc EXCEPT ![p] = "map_locked"]
       \/ outPc[p] = "map_locked" /\ outPc' = [outPc EXCEPT ![p] = "reading"]
       \/ outPc[p] = "reading" /\ outPc' = [outPc EXCEPT ![p] = "procs_wait"]
    /\ UNCHANGED << processes, claude_session_map, procsLock, children, errPc,
                    had_stderr, errWhileActive, call, fresh, ncalls, eventVars >>

StdoutLocksProcs(p) ==
    /\ \/ /\ outPc[p] = "procs_wait" /\ MutexFree(ProcsMutex)
          /\ outPc' = [outPc EXCEPT ![p] = "procs_locked"]
          /\ procsLock' = ReaderName("stdout", p)
       \/ /\ outPc[p] = "procs_locked"
          /\ outPc' = [outPc EXCEPT ![p] = "done"]
          /\ procsLock' = NoLock
    /\ UNCHANGED << processes, claude_session_map, children, errPc,
                    had_stderr, errWhileActive, call, fresh, ncalls, eventVars >>

\* stderr reader: at the end of the stream it locks the registry if the
\* child wrote anything
StderrLocks(p, wrote) ==
    /\ \/ /\ errPc[p] = "reading"
          /\ errPc' = [errPc EXCEPT ![p] = IF wrote THEN "procs_wait" ELSE "done"]
          /\ UNCHANGED procsLock
       \/ /\ errPc[p] = "procs_wait" /\ MutexFree(ProcsMutex)
          /\ errPc' = [errPc EXCEPT ![p] = "procs_locked"]
          /\ procsLock' = ReaderName("stderr", p)
       \/ /\ errPc[p] = "procs_locked"
          /\ errPc' = [errPc EXCEPT ![p] = "done"]
          /\ procsLock' = NoLock
    /\ UNCHANGED << processes, claude_session_map, children, outPc,
                    had_stderr, errWhileActive, call, fresh, ncalls, eventVars >>

NextLocks ==
    \/ \E c \in Callers, op \in LockedCommands : LockCommand(c, op)
    \/ \E c \in Callers : LockStep(c)
    \/ \E p \in Pids : StdoutLocks(p)
    \/ \E p \in Pids : StdoutLocksProcs(p)
    \/ \E p \in Pids, wrote \in BOOLEAN : StderrLocks(p, wrote)

SpecLocks == InitSeed /\ [][NextLocks]_vars

\* The tasks: the commands in progress and the two readers of every child
Tasks == [kind : {"command"}, id : Callers] \cup [kind : {"stdout", "stderr"}, id : Pids]

Holds(t, m) ==
    CASE t.kind = "command" -> m \in call[t.id].held
      [] t.kind = "stdout" ->
            \/ m = MapMutex /\ outPc[t.id] = "map_locked"
            \/ m = ProcsMutex /\ outPc[t.id] = "procs_locked"
      [] t.kind = "stderr" -> m = ProcsMutex /\ errPc[t.id] = "procs_locked"

Wants(t, m) ==
    CASE t.kind = "command" ->
            call[t.id].pc = "locks" /\ Head(call[t.id].todo) = Lock(m)
      [] t.kind = "stdout" ->
            \/ m = MapMutex /\ outPc[t.id] = "map_wait"
            \/ m = ProcsMutex /\ outPc[t.id] = "procs_wait"
      [] t.kind = "stderr" -> m = ProcsMutex /\ errPc[t.id] = "procs_wait"

Mutexes == {ProcsMutex, MapMutex}

WaitsFor(t, u) == \E m \in Mutexes : Wants(t, m) /\ Holds(u, m)

\* C36: no task asks for the `processes` lock while it holds the
\* claude_session_map lock, and none asks for a lock it holds; each mutex has
\* one holder at most; and no two tasks wait for each other (with two locks
\* every circular wait has two tasks in it), so every task that waits for a
\* lock waits for a task that can go on.
C36_LockOrder ==
    /\ \A t \in Tasks : ~(Holds(t, MapMutex) /\ Wants(t, ProcsMutex))
    /\ \A t \in Tasks, m \in Mutexes : ~(Holds(t, m) /\ Wants(t, m))
    /\ \A t, u \in Tasks, m \in Mutexes : (Holds(t, m) /\ Holds(u, m)) => t = u
    /\ \A t, u \in Tasks : ~(WaitsFor(t, u) /\ WaitsFor(u, t))

C36_Witness ==
    \E c \in Callers, p \in Pids :
        /\ call[c].op = "send_respawn"
        /\ Holds([kind |-> "command", id |-> c], ProcsMutex)
        /\ Wants([kind |-> "command", id |-> c], MapMutex)
        /\ Holds([kind |-> "stdout", id |-> p], MapMutex)
        /\ \E q \in Pids : Wants([kind |-> "stderr", id |-> q], ProcsMutex)

\* The step in which the spawn inside caller c's send_message fails
RespawnFails(c) ==
    /\ call[c].op = "send" /\ call[c].pc = "sp_launch"
    /\ call'[c].pc = "done"

\* The last command of caller c was a send_message whose respawn failed
RespawnFailed(c, h) ==
    /\ call[c].op = "send" /\ call[c].pc = "done" /\ call[c].h = h
    /\ call[c].respawn /\ call[c].ret \in SpawnErrors

\* What the failing step itself does, whatever else is going on: it returns
\* the error of spawn and changes nothing; the child of the record the call
\* removed is gone
FailsCleanly(c) ==
    RespawnFails(c) =>
        /\ call'[c].ret \in SpawnErrors
        /\ UNCHANGED << processes, claude_session_map, children, readerVars, eventVars >>
        /\ call[c].removed # 0 => children[call[c].removed].state = "dead"
        /\ call[c].launches = 0

\* C37 as stated: when the spawn inside a respawn fails, send_message
\* returns the error, the handle has no record, the map entry is unchanged,
\* nothing was written, and a send_message that came next would resume with
\* the identifier the failed call had resolved.
C37_FailedRespawnStated ==
    [][\A c \in Callers :
          /\ FailsCleanly(c)
          /\ RespawnFails(c) =>
                /\ call[c].h \notin DOMAIN processes'
                /\ ResolveResume(claude_session_map', call[c].h) = call[c].csid]_vars

\* C37, amended: when the spawn inside a respawn fails, send_message returns
\* the error; the failing step changes neither registry nor map nor any
\* child (nothing is written), the call has removed the record it found and
\* its child is dead, and from its removal on the call adds no record.  So
\* the handle has no record at the return unless another command on the
\* handle inserted one meanwhile.  When no other command ran, the handle has
\* no record, the next send_message takes the respawn path, and the id it
\* would resume with is the failed call's, except that it is the id a
\* reader recorded meanwhile when the failed call had fallen back to the
\* handle.
C37_FailedRespawn ==
    [][\A c \in Callers :
          LET h == call[c].h
              alone == \A d \in Callers \ {c} : call[d].pc = "idle"
          IN /\ FailsCleanly(c)
             /\ (call[c].op = "send" /\ call[c].pc \in {"sm_killwait", "sp_launch"}
                                     /\ call'[c] # call[c]) =>
                   processes' = processes
             /\ (call[c].pc = "sm_remove" /\ call'[c] # call[c]) =>
                   h \notin DOMAIN processes'
             /\ (RespawnFails(c) /\ alone) =>
                   /\ h \notin DOMAIN processes'
                   /\ \/ ResolveResume(claude_session_map', h) = call[c].csid
                      \/ call[c].csid = h /\ h \in DOMAIN claude_session_map'
             /\ \A d \in Callers \ {c} :
                   (RespawnFailed(c, h) /\ call[d].pc = "idle" /\ SendBegins(d)
                                        /\ call'[d].h = h) =>
                       (call'[d].respawn /\ call'[d].pc = "sm_resolve")]_vars

C37_Witness ==
    \E c \in Callers, d \in Callers :
        /\ RespawnFailed(c, call[d].h)
        /\ call[d].op = "send" /\ call[d].pc = "sm_remove" /\ call[d].seen = NoId
        /\ call[d].h \notin DOMAIN processes
        /\ call[d].csid \in ExtIds
        /\ children[1].state = "dead" /\ children[1].h = call[d].h
        /\ \A q \in Pids : children[q].state # "live"

----------------------------------------------------------------------------
(* The Conversation ID Map only grows *)

\* C38: an entry of the Conversation ID Map is never removed: a handle
\* for which get_claude_session_id returns an identifier still has one after
\* every step of a command or of a reader.
C38_EntriesStay ==
    [][\A h \in Handles :
          GetClaudeSessionId(claude_session_map, h) # NoId =>
              GetClaudeSessionId(claude_session_map', h) # NoId]_vars

\* The entry is still there after a kill_session removed the record, the
\* child is dead and both of its readers have ended
C38_Witness ==
    \E c \in Callers, h \in Handles, p \in Pids :
        /\ GetClaudeSessionId(claude_session_map, h) \in ExtIds
        /\ call[c].op = "kill" /\ call[c].pc = "done" /\ call[c].h = h
        /\ h \notin DOMAIN processes
        /\ children[p].h = h /\ children[p].state = "dead"
        /\ outPc[p] = "done" /\ errPc[p] = "done"
        /\ statusEvents[p].completed = 1

====
